---- MODULE Spec2Model ----
(***************************************************************************)
(* A model of booru-db: the bitmap engine (Queryable / QueryableOwned),    *)
(* the query AST with its parser, simplifier, mapper and evaluator, the    *)
(* KeysIndex behind the default tag index, the Db registry with its        *)
(* alive-set, and the QueryResult surface.                                 *)
(*                                                                         *)
(* A Packed word (u64) is modelled as the set of its set bit offsets, a    *)
(* subset of 0..PACKED_SIZE-1: & is \cap, | is \cup, ! is the complement   *)
(* in Bits, count_ones is Cardinality.  A bitmap is a sequence of words;   *)
(* word k of the code (0-based) is element k+1 of the sequence.            *)
(* A string is the sequence of its characters.                             *)
(***************************************************************************)
EXTENDS Integers, Sequences, FiniteSets, TLC

\* ------------------------------------------------------------------------
\* Program constants
\* ------------------------------------------------------------------------
PACKED_SIZE == 64

CHECKS_PER_CHUNK == 10

CHECKS_CHUNK_SIZE == CHECKS_PER_CHUNK * PACKED_SIZE

Bits == 0 .. (PACKED_SIZE - 1)

\* Packed::MAX
PackedMAX == Bits

\* ------------------------------------------------------------------------
\* Bounds of the model
\* ------------------------------------------------------------------------
\* check_and_convert's margin.  The code's margin is 1_024 * 64 * 8 bits; it
\* is scaled down here so that the small id sets of the model cross it in
\* both directions and both stored forms occur.
MarginBits == 32

\* Number of records given to DbLoader::load.
MaxLoad == 2

\* Number of db.insert / db.remove / db.update calls after the load.
MaxOps == 2

\* ------------------------------------------------------------------------
\* Generic helpers
\* ------------------------------------------------------------------------
Min(a, b) == IF a < b THEN a ELSE b

Last(s) == s[Len(s)]

RECURSIVE SumSeq(_)
SumSeq(s) == IF s = <<>> THEN 0 ELSE Head(s) + SumSeq(Tail(s))

\* Vec::insert(index, x) with a 0-based index
VecInsert(s, index, x) == SubSeq(s, 1, index) \o <<x>> \o SubSeq(s, index + 1, Len(s))

\* Vec::remove(index) with a 0-based index
VecRemove(s, index) == SubSeq(s, 1, index) \o SubSeq(s, index + 2, Len(s))

\* slice::binary_search on an ascending ID vector: <<TRUE, i>> is Ok(i) and
\* <<FALSE, i>> is Err(i), i the 0-based number of elements below x.
BinarySearch(ids, x) ==
    LET below == Cardinality({i \in 1..Len(ids) : ids[i] < x})
    IN  IF \E i \in 1..Len(ids) : ids[i] = x
        THEN <<TRUE, (CHOOSE i \in 1..Len(ids) : ids[i] = x) - 1>>
        ELSE <<FALSE, below>>

Zeros(n) == SubSeq([i \in 1..n |-> {}], 1, n)

Ones(n) == [i \in 1..n |-> PackedMAX]

\* The ids a bitmap denotes
BitmapIds(checks) ==
    UNION {{(w - 1) * PACKED_SIZE + o : o \in checks[w]} : w \in 1..Len(checks)}

PopCount(checks) == SumSeq([w \in 1..Len(checks) |-> Cardinality(checks[w])])

\* checks[index] |= 1 << offset, for an index inside the bitmap
SetBit(checks, id) ==
    [checks EXCEPT ![(id \div PACKED_SIZE) + 1] = @ \cup {id % PACKED_SIZE}]

\* checks[index] ^= 1 << offset
XorBit(checks, id) ==
    [checks EXCEPT ![(id \div PACKED_SIZE) + 1] =
        IF (id % PACKED_SIZE) \in @ THEN @ \ {id % PACKED_SIZE}
                                    ELSE @ \cup {id % PACKED_SIZE}]

\* checks[index] &= !(1 << offset)
ClearBit(checks, id) ==
    [checks EXCEPT ![(id \div PACKED_SIZE) + 1] = @ \ {id % PACKED_SIZE}]

\* while index >= checks.len() { checks.push(0) }
GrowTo(checks, index) ==
    IF index >= Len(checks) THEN checks \o Zeros(index + 1 - Len(checks)) ELSE checks

TestBit(checks, id) ==
    /\ (id \div PACKED_SIZE) < Len(checks)
    /\ (id % PACKED_SIZE) \in checks[(id \div PACKED_SIZE) + 1]

\* ------------------------------------------------------------------------
\* query/run.rs: word-wise combinators over zip(a, b)
\* ------------------------------------------------------------------------
and_checks(a, b) == [i \in 1..Len(a) |-> IF i <= Len(b) THEN a[i] \cap b[i] ELSE a[i]]

and_not_checks(a, b) ==
    [i \in 1..Len(a) |-> IF i <= Len(b) THEN a[i] \cap (Bits \ b[i]) ELSE a[i]]

or_checks(a, b) == [i \in 1..Len(a) |-> IF i <= Len(b) THEN a[i] \cup b[i] ELSE a[i]]

\* ------------------------------------------------------------------------
\* query/queryable.rs: Queryable, a read view over a set of IDs.
\* A Queryable is [form |-> "Checks" | "IDs", data |-> the words or the ids];
\* the Owned variants behave as the borrowed ones.
\* ------------------------------------------------------------------------
QChecks(checks) == [form |-> "Checks", data |-> checks]

QIDs(ids) == [form |-> "IDs", data |-> ids]

\* The loop of apply_ids over the byte view of the words (little-endian):
\* byte id / 8, bit id % 8 of that byte, when the byte lies inside the slice.
RECURSIVE ApplyIdsLoop(_, _, _)
ApplyIdsLoop(from, checks, inverse) ==
    IF from = <<>> THEN checks
    ELSE LET id     == Head(from)
             index  == id \div 8
             offset == id % 8
             len    == (Len(checks) * PACKED_SIZE) \div 8
             next   == IF index < len
                       THEN IF inverse THEN XorBit(checks, index * 8 + offset)
                                       ELSE SetBit(checks, index * 8 + offset)
                       ELSE checks
         IN  ApplyIdsLoop(Tail(from), next, inverse)

apply_ids(from, checks, inverse) ==
    ApplyIdsLoop(from, IF inverse THEN Ones(Len(checks)) ELSE Zeros(Len(checks)), inverse)

apply_checks(from, checks, inverse) ==
    IF inverse
    THEN [i \in 1..Len(checks) |-> IF i <= Len(from) THEN Bits \ from[i] ELSE checks[i]]
    ELSE [i \in 1..Len(checks) |-> IF i <= Len(from) THEN from[i] ELSE {}]

\* Queryable::run
QueryableRun(q, checks, inverse) ==
    IF q.form = "Checks" THEN apply_checks(q.data, checks, inverse)
                         ELSE apply_ids(q.data, checks, inverse)

\* Queryable::and
QueryableAnd(q, checks, inverse) ==
    IF q.form = "Checks"
    THEN IF inverse THEN and_not_checks(checks, q.data) ELSE and_checks(checks, q.data)
    ELSE and_checks(checks, apply_ids(q.data, checks, inverse))

\* The non-inverse IDs arm of Queryable::or
RECURSIVE OrIdsLoop(_, _)
OrIdsLoop(ids, checks) ==
    IF ids = <<>> THEN checks
    ELSE LET id == Head(ids)
         IN  OrIdsLoop(Tail(ids),
                       IF (id \div PACKED_SIZE) < Len(checks) THEN SetBit(checks, id)
                                                              ELSE checks)

\* Queryable::or
QueryableOr(q, checks, inverse) ==
    IF q.form = "Checks"
    THEN IF inverse
         THEN [i \in 1..Len(checks) |->
                 IF i <= Len(q.data) THEN checks[i] \cup (Bits \ q.data[i]) ELSE PackedMAX]
         ELSE or_checks(checks, q.data)
    ELSE IF inverse
         THEN or_checks(checks, apply_ids(q.data, checks, inverse))
         ELSE OrIdsLoop(q.data, checks)

\* ------------------------------------------------------------------------
\* query/util.rs
\* ------------------------------------------------------------------------
\* size_of::<Packed>() * 8 / PACKED_SIZE bits per id
size_of_checks(max_id) == max_id * ((8 * 8) \div PACKED_SIZE)

\* size_of::<ID>() * 8 bits per id
size_of_ids(len) == len * (4 * 8)

CeilDiv(a, b) == (a + b - 1) \div b

\* The exponent of an integer that is at least 2^24 (and below 2^31, as
\* every integer of the model is)
F32Exponent(n) == CHOOSE e \in 24..30 : n \div 2^e = 1

\* Rounds n to the nearest multiple of ulp, a tie to the even multiple
RoundTiesEven(n, ulp) ==
    IF 2 * (n % ulp) > ulp \/ (2 * (n % ulp) = ulp /\ (n \div ulp) % 2 = 1)
    THEN ((n \div ulp) + 1) * ulp
    ELSE (n \div ulp) * ulp

\* `n as f32` for a u32: the significand of an f32 holds 24 bits
AsF32(n) == IF n < 2^24 THEN n ELSE RoundTiesEven(n, 2^(F32Exponent(n) - 23))

\* ((last + 1) as f32 / PACKED_SIZE as f32).ceil() as usize: the quotient
\* by a power of two is exact in f32 (the u32 sum overflows for the id
\* u32::MAX alone, which lies outside the integers of the model)
Capacity(last) == CeilDiv(AsF32(last + 1), PACKED_SIZE)

to_checks(ids) ==
    IF ids = <<>> THEN <<>>
    ELSE apply_ids(ids, Zeros(Capacity(Last(ids))), FALSE)

\* The ids of one word, ascending by offset
RECURSIVE WordIds(_, _, _)
WordIds(check, index, offset) ==
    IF offset >= PACKED_SIZE THEN <<>>
    ELSE (IF offset \in check THEN <<index + offset>> ELSE <<>>)
         \o WordIds(check, index, offset + 1)

\* The loop of to_ids over the words first..last, in order; the range is
\* halved so that the evaluation of a long bitmap stays shallow
RECURSIVE ToIdsFrom(_, _, _)
ToIdsFrom(checks, first, last) ==
    IF first > last THEN <<>>
    ELSE IF first = last
    THEN IF checks[first] = {} THEN <<>>
         ELSE WordIds(checks[first], (first - 1) * PACKED_SIZE, 0)
    ELSE ToIdsFrom(checks, first, (first + last) \div 2)
         \o ToIdsFrom(checks, ((first + last) \div 2) + 1, last)

to_ids(checks) == ToIdsFrom(checks, 1, Len(checks))

\* ------------------------------------------------------------------------
\* query/queryable.rs: QueryableOwned, the stored form.
\* [form |-> "Checks", checks, matched] or [form |-> "IDs", ids]; the unused
\* field of a form is kept empty.
\* ------------------------------------------------------------------------
OwnedChecks(checks, matched) ==
    [form |-> "Checks", checks |-> checks, matched |-> matched, ids |-> <<>>]

OwnedIDs(ids) == [form |-> "IDs", checks |-> <<>>, matched |-> 0, ids |-> ids]

\* impl Default for QueryableOwned
OwnedDefault == OwnedIDs(<<>>)

\* impl From<&QueryableOwned> for Queryable
AsQueryable(o) == IF o.form = "Checks" THEN QChecks(o.checks) ELSE QIDs(o.ids)

OwnedMatched(o) == IF o.form = "Checks" THEN o.matched ELSE Len(o.ids)

OwnedContains(o, id) ==
    IF o.form = "Checks" THEN TestBit(o.checks, id)
                         ELSE \E i \in 1..Len(o.ids) : o.ids[i] = id

\* The ids a stored set denotes
OwnedIds(o) == IF o.form = "Checks" THEN BitmapIds(o.checks)
                                    ELSE {o.ids[i] : i \in 1..Len(o.ids)}

check_and_convert(o) ==
    IF o.form = "Checks"
    THEN IF o.checks = <<>> THEN o
         ELSE LET max_id      == Len(o.checks) * PACKED_SIZE
                  checks_size == size_of_checks(max_id)
                  ids_size    == size_of_ids(OwnedMatched(o))
              IN  IF checks_size > ids_size + MarginBits
                  THEN OwnedIDs(to_ids(o.checks)) ELSE o
    ELSE IF o.ids = <<>> THEN o
         ELSE LET max_id      == Last(o.ids)
                  checks_size == size_of_checks(max_id)
                  ids_size    == size_of_ids(OwnedMatched(o))
              IN  IF ids_size > checks_size + MarginBits
                  THEN OwnedChecks(to_checks(o.ids), Len(o.ids)) ELSE o

insert_unchecked(o, id) ==
    IF o.form = "Checks"
    THEN OwnedChecks(SetBit(GrowTo(o.checks, id \div PACKED_SIZE), id), o.matched + 1)
    ELSE OwnedIDs(Append(o.ids, id))

OwnedInsert(o, id) ==
    check_and_convert(
        IF o.form = "Checks"
        THEN LET grown == GrowTo(o.checks, id \div PACKED_SIZE)
             IN  IF ~TestBit(grown, id) THEN OwnedChecks(SetBit(grown, id), o.matched + 1)
                                        ELSE OwnedChecks(grown, o.matched)
        ELSE LET r == BinarySearch(o.ids, id)
             IN  IF ~r[1] THEN OwnedIDs(VecInsert(o.ids, r[2], id)) ELSE o)

OwnedRemove(o, id) ==
    check_and_convert(
        IF o.form = "Checks"
        THEN IF TestBit(o.checks, id) THEN OwnedChecks(ClearBit(o.checks, id), o.matched - 1)
                                      ELSE o
        ELSE LET r == BinarySearch(o.ids, id)
             IN  IF r[1] THEN OwnedIDs(VecRemove(o.ids, r[2])) ELSE o)

\* ------------------------------------------------------------------------
\* query/mod.rs: Query<T> { item, inverse }, Item = AndChain | OrChain | Single
\* ------------------------------------------------------------------------
AndChain(items, inverse) == [item |-> "AndChain", items |-> items, inverse |-> inverse]

OrChain(items, inverse) == [item |-> "OrChain", items |-> items, inverse |-> inverse]

Single(tag, inverse) == [item |-> "Single", tag |-> tag, inverse |-> inverse]

IsChain(q) == q.item \in {"AndChain", "OrChain"}

\* a ^ b on booleans
Xor(a, b) == a # b

RECURSIVE Concat(_)
Concat(ss) == IF ss = <<>> THEN <<>> ELSE Head(ss) \o Concat(Tail(ss))

\* ------------------------------------------------------------------------
\* index/keys.rs: KeysIndexLoader / KeysIndex.  items is a function from the
\* keys present to their QueryableOwned.
\* ------------------------------------------------------------------------
MapPut(m, k, v) == [x \in (DOMAIN m) \cup {k} |-> IF x = k THEN v ELSE m[x]]

MapDel(m, k) == [x \in (DOMAIN m) \ {k} |-> m[x]]

EmptyMap == [x \in {} |-> OwnedDefault]

RECURSIVE KeysLoaderAdd(_, _, _)
KeysLoaderAdd(items, id, keys) ==
    IF keys = <<>> THEN items
    ELSE LET key == Head(keys)
             cur == IF key \in DOMAIN items THEN items[key] ELSE OwnedDefault
         IN  KeysLoaderAdd(MapPut(items, key, insert_unchecked(cur, id)), id, Tail(keys))

KeysLoaderLoad(items) == [k \in DOMAIN items |-> check_and_convert(items[k])]

KeysGet(items, k) == IF k \in DOMAIN items THEN <<AsQueryable(items[k])>> ELSE <<>>

RECURSIVE KeysInsert(_, _, _)
KeysInsert(items, id, keys) ==
    IF keys = <<>> THEN items
    ELSE LET key == Head(keys)
             cur == IF key \in DOMAIN items THEN items[key] ELSE OwnedDefault
         IN  KeysInsert(MapPut(items, key, OwnedInsert(cur, id)), id, Tail(keys))

RECURSIVE KeysRemove(_, _, _)
KeysRemove(items, id, keys) ==
    IF keys = <<>> THEN items
    ELSE LET key == Head(keys)
             next == IF key \in DOMAIN items
                     THEN LET q == OwnedRemove(items[key], id)
                          IN  IF OwnedMatched(q) = 0 THEN MapDel(items, key)
                                                     ELSE MapPut(items, key, q)
                     ELSE items
         IN  KeysRemove(next, id, Tail(keys))

\* The elements of a set in some order (the iteration order of a hash set)
RECURSIVE SetToSeq(_)
SetToSeq(S) == IF S = {} THEN <<>>
               ELSE LET x == CHOOSE y \in S : TRUE IN <<x>> \o SetToSeq(S \ {x})

SeqRange(s) == {s[i] : i \in 1..Len(s)}

\* A set of ids in ascending order
RECURSIVE Ascending(_)
Ascending(S) ==
    IF S = {} THEN <<>>
    ELSE LET lo == CHOOSE x \in S : \A y \in S : x <= y
         IN  <<lo>> \o Ascending(S \ {lo})

KeysUpdate(items, id, old, new) ==
    IF old = new THEN items
    ELSE KeysInsert(KeysRemove(items, id, SetToSeq(SeqRange(old) \ SeqRange(new))),
                    id, SetToSeq(SeqRange(new) \ SeqRange(old)))

\* examples/tags.rs: TagIndex::query; <<q>> is Some(q) and <<>> is None
TagIndexQuery(items, text, inverse) ==
    LET q == KeysGet(items, text)
    IN  IF q = <<>> THEN <<>> ELSE <<Single(q[1], inverse)>>

\* lib.rs: the closure Db::query hands to try_map.  Only the default index
\* is registered, so the prefix before a ':' is never a known identifier and
\* the whole token goes to the default index.
DbResolve(items, text, inverse) == TagIndexQuery(items, text, inverse)

\* ------------------------------------------------------------------------
\* query/util.rs: try_map.  Ok(q) is [ok |-> TRUE, query |-> q] and
\* Err(missing) is [ok |-> FALSE, missing |-> missing].
\* ------------------------------------------------------------------------
MapOk(q) == [ok |-> TRUE, query |-> q]

MapErr(m) == [ok |-> FALSE, missing |-> m]

RECURSIVE KeptOf(_)
KeptOf(rs) == IF rs = <<>> THEN <<>>
              ELSE (IF Head(rs).ok THEN <<Head(rs).query>> ELSE <<>>) \o KeptOf(Tail(rs))

RECURSIVE MissingOf(_)
MissingOf(rs) == IF rs = <<>> THEN <<>>
                 ELSE (IF Head(rs).ok THEN <<>> ELSE Head(rs).missing) \o MissingOf(Tail(rs))

RECURSIVE inner_try_map(_, _, _)
inner_try_map(self, items, inverse0) ==
    LET inverse == Xor(inverse0, self.inverse)
    IN  IF self.item = "Single"
        THEN LET r == DbResolve(items, self.tag, self.inverse)
             IN  IF r # <<>> THEN MapOk(r[1])
                 ELSE IF inverse THEN MapErr(<<>>)
                 ELSE MapErr(<<self.tag>>)
        ELSE LET rs      == [i \in 1..Len(self.items) |->
                               inner_try_map(self.items[i], items, inverse)]
                 kept    == KeptOf(rs)
                 missing == MissingOf(rs)
             IN  IF self.item = "AndChain"
                 THEN IF missing # <<>> THEN MapErr(missing)
                      ELSE MapOk(AndChain(kept, self.inverse))
                 ELSE IF kept = <<>> /\ Len(self.items) # 0 THEN MapErr(missing)
                      ELSE MapOk(OrChain(kept, self.inverse))

try_map(self, items) == inner_try_map(self, items, self.inverse)

\* ------------------------------------------------------------------------
\* query/run.rs: the evaluator
\* ------------------------------------------------------------------------
RECURSIVE inner_run(_, _, _)
RECURSIVE AndLoop(_, _, _)
RECURSIVE OrLoop(_, _, _)

\* for query_item in query_items { query_item.inner_run(checks, query_item.inverse ^ inverse) }
AndLoop(query_items, checks, inverse) ==
    IF query_items = <<>> THEN checks
    ELSE AndLoop(Tail(query_items),
                 inner_run(Head(query_items), checks, Xor(Head(query_items).inverse, inverse)),
                 inverse)

\* The loop of the OrChain arm: checks_2 accumulates, checks_3 is refilled
\* with Packed::MAX for every child that is a chain.
OrLoop(query_items, checks_2, checks) ==
    IF query_items = <<>> THEN checks_2
    ELSE LET query_item == Head(query_items)
             next == IF query_item.item = "Single"
                     THEN QueryableOr(query_item.tag, checks_2, query_item.inverse)
                     ELSE or_checks(checks_2,
                                    inner_run(query_item, Ones(Len(checks)), query_item.inverse))
         IN  OrLoop(Tail(query_items), next, checks)

inner_run(self, checks, inverse) ==
    CASE self.item = "AndChain" -> AndLoop(self.items, checks, inverse)
      [] self.item = "OrChain" ->
            LET checks_2 == OrLoop(self.items, Zeros(Len(checks)), checks)
            IN  IF self.inverse THEN and_not_checks(checks, checks_2)
                                ELSE and_checks(checks, checks_2)
      [] OTHER -> QueryableAnd(self.tag, checks, inverse)

\* The same evaluation from a bitmap of all ones, without the final and_checks
RunFromOnes(self, base_checks) ==
    IF self.item = "Single"
    THEN QueryableAnd(self.tag, Ones(Len(base_checks)), self.inverse)
    ELSE inner_run(self, Ones(Len(base_checks)), self.inverse)

\* Query::run
Run(self, base_checks) ==
    IF self.item = "Single"
    THEN QueryableAnd(self.tag, base_checks, self.inverse)
    ELSE and_checks(inner_run(self, base_checks, self.inverse), base_checks)

\* ------------------------------------------------------------------------
\* query/result.rs: QueryResult { checks, matched, match_counts }
\* ------------------------------------------------------------------------
QueryResultNew(checks) ==
    LET capacity == CeilDiv(Len(checks), CHECKS_PER_CHUNK)
        match_counts ==
            [c \in 1..capacity |->
                PopCount(SubSeq(checks, (c - 1) * CHECKS_PER_CHUNK + 1,
                                Min(Len(checks), c * CHECKS_PER_CHUNK)))]
    IN  [checks |-> checks, matched |-> SumSeq(match_counts), match_counts |-> match_counts]

QueryResultContains(self, id) == TestBit(self.checks, id)

QueryResultInsert(self, id) ==
    LET index  == id \div PACKED_SIZE
        checks == GrowTo(self.checks, index)
    IN  IF ~TestBit(checks, id)
        THEN LET counts_index == index \div CHECKS_PER_CHUNK
                 counts == IF Len(self.match_counts) <= counts_index
                           THEN self.match_counts \o
                                [i \in 1..(counts_index + 1 - Len(self.match_counts)) |-> 0]
                           ELSE self.match_counts
             IN  [checks |-> SetBit(checks, id),
                  matched |-> self.matched + 1,
                  match_counts |-> [counts EXCEPT ![counts_index + 1] = @ + 1]]
        ELSE [self EXCEPT !.checks = checks]

QueryResultRemove(self, id) ==
    LET index == id \div PACKED_SIZE
    IN  IF index >= Len(self.checks) THEN self
        ELSE IF TestBit(self.checks, id)
        THEN [checks |-> XorBit(self.checks, id),
              matched |-> self.matched - 1,
              match_counts |-> [self.match_counts EXCEPT ![(index \div CHECKS_PER_CHUNK) + 1] = @ - 1]]
        ELSE self

\* Option<ID>
None == <<>>

Some(x) == <<x>>

\* get_match: for offset in 0..PACKED_SIZE over one word.  <<TRUE, offset>>
\* is the return inside the loop, <<FALSE, n>> its end with ids_found = n.
RECURSIVE MatchOffsets(_, _, _, _)
MatchOffsets(check, index, offset, ids_found) ==
    IF offset >= PACKED_SIZE THEN <<FALSE, ids_found>>
    ELSE IF offset \in check
    THEN IF ids_found + 1 > index THEN <<TRUE, offset>>
         ELSE MatchOffsets(check, index, offset + 1, ids_found + 1)
    ELSE MatchOffsets(check, index, offset + 1, ids_found)

\* get_match: for (check_index, check) in self.checks[checks_offset..]
RECURSIVE MatchChecks(_, _, _, _, _)
MatchChecks(self, index, checks_offset, check_index, ids_found) ==
    IF checks_offset + check_index >= Len(self.checks) THEN <<FALSE, ids_found>>
    ELSE LET check == self.checks[checks_offset + check_index + 1]
             ones  == Cardinality(check)
         IN  IF ids_found + ones <= index
             THEN MatchChecks(self, index, checks_offset, check_index + 1, ids_found + ones)
             ELSE LET r == MatchOffsets(check, index, 0, ids_found)
                  IN  IF r[1]
                      THEN <<TRUE, (check_index + checks_offset) * PACKED_SIZE + r[2]>>
                      ELSE MatchChecks(self, index, checks_offset, check_index + 1, r[2])

\* get_match: for (count_index, count) in self.match_counts
RECURSIVE MatchCounts(_, _, _, _)
MatchCounts(self, index, count_index, ids_found) ==
    IF count_index >= Len(self.match_counts) THEN None
    ELSE LET count == self.match_counts[count_index + 1]
         IN  IF ids_found + count > index
             THEN LET checks_offset == (count_index * CHECKS_CHUNK_SIZE) \div PACKED_SIZE
                      r == MatchChecks(self, index, checks_offset, 0, ids_found)
                  IN  IF r[1] THEN Some(r[2])
                      ELSE MatchCounts(self, index, count_index + 1, r[2] + count)
             ELSE MatchCounts(self, index, count_index + 1, ids_found + count)

\* QueryResult::get_match
get_match(self, index) ==
    IF index >= self.matched THEN None ELSE MatchCounts(self, index, 0, 0)

\* get: the loop over the offsets of one word, offset_index counting the
\* iterations; in reverse the offsets run from PACKED_SIZE - 1 down and id is
\* the id of the word's top bit.  Yields the loop's ids and ids_found, and
\* done when the loop returned ids.
RECURSIVE GetOffsets(_, _, _, _, _, _, _, _)
GetOffsets(check, id, reverse, offset_index, index, limit, ids_found, ids) ==
    IF offset_index >= PACKED_SIZE
    THEN [ids |-> ids, ids_found |-> ids_found, done |-> FALSE]
    ELSE LET offset == IF reverse THEN PACKED_SIZE - 1 - offset_index ELSE offset_index
         IN  IF offset \in check
             THEN IF ids_found + 1 > index
                  THEN LET pushed == Append(ids, IF reverse THEN id - offset_index
                                                            ELSE id + offset)
                       IN  IF Len(pushed) >= limit
                           THEN [ids |-> pushed, ids_found |-> ids_found + 1, done |-> TRUE]
                           ELSE GetOffsets(check, id, reverse, offset_index + 1, index,
                                           limit, ids_found + 1, pushed)
                  ELSE GetOffsets(check, id, reverse, offset_index + 1, index, limit,
                                  ids_found + 1, ids)
             ELSE GetOffsets(check, id, reverse, offset_index + 1, index, limit,
                             ids_found, ids)

\* get: for (id, check) in self.checks.iter().enumerate(), or .rev().enumerate()
\* with max_id the id of the bitmap's top bit
RECURSIVE GetChecks(_, _, _, _, _, _, _, _)
GetChecks(self, max_id, reverse, id, index, limit, ids_found, ids) ==
    IF id >= Len(self.checks) THEN ids
    ELSE LET check == IF reverse THEN self.checks[Len(self.checks) - id]
                                 ELSE self.checks[id + 1]
             ones  == Cardinality(check)
         IN  IF ids_found + ones <= index + Len(ids)
             THEN GetChecks(self, max_id, reverse, id + 1, index, limit, ids_found + ones, ids)
             ELSE LET word_id == IF reverse THEN max_id - id * PACKED_SIZE
                                            ELSE id * PACKED_SIZE
                      r == GetOffsets(check, word_id, reverse, 0, index, limit, ids_found, ids)
                  IN  IF r.done THEN r.ids
                      ELSE GetChecks(self, max_id, reverse, id + 1, index, limit,
                                     r.ids_found, r.ids)

\* The same page with max_id one too high
get_top_off_by_one(self, index, limit, reverse) ==
    IF limit = 0 THEN <<>>
    ELSE IF index >= self.matched THEN <<>>
    ELSE GetChecks(self, Len(self.checks) * PACKED_SIZE, reverse, 0, index,
                   Min(limit, self.matched - index), 0, <<>>)

\* QueryResult::get
get(self, index, limit, reverse) ==
    IF limit = 0 THEN <<>>
    ELSE IF index >= self.matched THEN <<>>
    ELSE GetChecks(self, Len(self.checks) * PACKED_SIZE - 1, reverse, 0, index,
                   Min(limit, self.matched - index), 0, <<>>)

\* get_random: for _ in 0..limit.  draws[i] is what the generator yields in
\* iteration i, and gen_range(0..matched) brings it into the range; it panics
\* on an empty range, and unwrap() panics on None.
RECURSIVE RandomLoop(_, _, _, _, _)
RandomLoop(self, limit, draws, i, ids) ==
    IF i > limit THEN [ids |-> ids, result |-> self, panicked |-> FALSE]
    ELSE IF self.matched = 0 THEN [ids |-> ids, result |-> self, panicked |-> TRUE]
    ELSE LET index == draws[i] % self.matched
             id    == get_match(self, index)
         IN  IF id = None THEN [ids |-> ids, result |-> self, panicked |-> TRUE]
             ELSE RandomLoop(QueryResultRemove(self, id[1]), limit, draws, i + 1,
                             Append(ids, id[1]))

\* The same draws without limit = limit.min(self.matched)
get_random_unclamped(self, limit, draws) ==
    IF limit = 0 THEN [ids |-> <<>>, result |-> self, panicked |-> FALSE]
    ELSE RandomLoop(self, limit, draws, 1, <<>>)

\* QueryResult::get_random
get_random(self, limit, draws) ==
    IF limit = 0 THEN [ids |-> <<>>, result |-> self, panicked |-> FALSE]
    ELSE RandomLoop(self, Min(limit, self.matched), draws, 1, <<>>)

\* get_sorted: the loop over sort (already reversed when reverse is set)
RECURSIVE SortedLoop(_, _, _, _, _, _)
SortedLoop(self, sort, index, limit, current_index, ids) ==
    IF sort = <<>> THEN ids
    ELSE LET id == Head(sort)
         IN  IF QueryResultContains(self, id)
             THEN IF current_index >= index
                  THEN IF Len(ids) + 1 >= limit THEN Append(ids, id)
                       ELSE SortedLoop(self, Tail(sort), index, limit, current_index + 1,
                                       Append(ids, id))
                  ELSE SortedLoop(self, Tail(sort), index, limit, current_index + 1, ids)
             ELSE SortedLoop(self, Tail(sort), index, limit, current_index, ids)

\* Iterator::rev, Vec::reverse
Reverse(s) == [i \in 1..Len(s) |-> s[Len(s) + 1 - i]]

\* The same window without ids.reverse() after a backwards read
get_sorted_unreversed(self, sort, index0, limit0, reverse0) ==
    IF limit0 = 0 THEN <<>>
    ELSE IF index0 >= self.matched THEN <<>>
    ELSE LET limit     == Min(limit0, self.matched - index0)
             backwards == index0 >= self.matched \div 2
             reverse   == IF backwards THEN ~reverse0 ELSE reverse0
             index     == IF backwards THEN self.matched - index0 - limit ELSE index0
         IN  SortedLoop(self, IF reverse THEN Reverse(sort) ELSE sort, index, limit, 0, <<>>)

\* QueryResult::get_sorted
get_sorted(self, sort, index0, limit0, reverse0) ==
    IF limit0 = 0 THEN <<>>
    ELSE IF index0 >= self.matched THEN <<>>
    ELSE LET limit     == Min(limit0, self.matched - index0)
             backwards == index0 >= self.matched \div 2
             reverse   == IF backwards THEN ~reverse0 ELSE reverse0
             index     == IF backwards THEN self.matched - index0 - limit ELSE index0
             ids       == SortedLoop(self, IF reverse THEN Reverse(sort) ELSE sort,
                                     index, limit, 0, <<>>)
         IN  IF backwards THEN Reverse(ids) ELSE ids

\* ------------------------------------------------------------------------
\* query/parse.rs.  The input of parse_item is the token list that
\* split_whitespace yields; a token is a non-empty sequence of characters.
\* ------------------------------------------------------------------------
TokDash == <<"-">>

TokUnit == <<"(", ")">>

TokOr == <<"o", "r">>

TokNegOpen == <<"-", "(">>

TokOpen == <<"(">>

TokClose == <<")">>

\* Query::new
QueryNew(item, inverse) ==
    IF item.item = "Single" THEN Single(item.tag, inverse)
    ELSE [item |-> item.item, items |-> item.items, inverse |-> inverse]

\* and_chain.push(Query::new(Item::OrChain(or_chain), false)); or_chain = Vec::new()
FlushOr(st) == [st EXCEPT !.and_chain = Append(@, OrChain(st.or_chain, FALSE)),
                          !.or_chain = <<>>]

\* The tail of one iteration of the while loop, once the token is matched:
\* item is <<q>> for Some(q) and <<>> for None, index is the index after the
\* match arms ran.
ParsePlace(input, st, index, item, is_or) ==
    LET st1 == IF item # <<>>
               THEN LET a == IF ~st.was_or /\ st.or_chain # <<>> THEN FlushOr(st) ELSE st
                    IN  IF \/ a.was_or
                           \/ /\ a.or_chain = <<>>
                              /\ index + 1 < Len(input)
                              /\ input[index + 2] = TokOr
                        THEN [a EXCEPT !.or_chain = Append(@, item[1])]
                        ELSE LET b == IF a.or_chain # <<>> THEN FlushOr(a) ELSE a
                             IN  [b EXCEPT !.and_chain = Append(@, item[1])]
               ELSE IF ~is_or /\ st.or_chain # <<>> THEN FlushOr(st) ELSE st
    IN  [st1 EXCEPT !.was_or = is_or, !.index = index + 1]

RECURSIVE parse_item(_)
RECURSIVE ParseLoop(_, _)

\* while index < input.len() { ... }; st.done records the break at ")"
ParseLoop(input, st) ==
    IF st.index >= Len(input) THEN st
    ELSE LET index == st.index
             tok   == input[index + 1]
         IN  CASE tok = TokDash \/ tok = TokUnit ->
                    ParseLoop(input, ParsePlace(input, st, index, <<>>, FALSE))
               [] tok = TokOr ->
                    ParseLoop(input, ParsePlace(input, st, index, <<>>, TRUE))
               [] tok = TokNegOpen \/ tok = TokOpen ->
                    LET r == parse_item(SubSeq(input, index + 2, Len(input)))
                    IN  ParseLoop(input,
                                  ParsePlace(input, st, index + r[1],
                                             <<QueryNew(r[2], tok = TokNegOpen)>>, FALSE))
               [] tok = TokClose -> [st EXCEPT !.index = index + 1]
               [] OTHER ->
                    LET inverse == Head(tok) = "-"
                        tag     == IF inverse THEN Tail(tok) ELSE tok
                    IN  ParseLoop(input,
                                  ParsePlace(input, st, index, <<Single(tag, inverse)>>, FALSE))

\* <<index, item>>; the item carries no inverse flag of its own yet
parse_item(input) ==
    LET st0 == [index |-> 0, and_chain |-> <<>>, or_chain |-> <<>>, was_or |-> FALSE]
        st  == ParseLoop(input, st0)
        fin == IF st.or_chain # <<>> THEN FlushOr(st) ELSE st
    IN  <<fin.index, AndChain(fin.and_chain, FALSE)>>

\* Query::parse on the split input: [ok |-> TRUE, query] or [ok |-> FALSE]
Parse(split) ==
    LET r == parse_item(split)
    IN  IF r[1] # Len(split) THEN [ok |-> FALSE]
        ELSE [ok |-> TRUE, query |-> QueryNew(r[2], FALSE)]

\* ------------------------------------------------------------------------
\* The derived Ord of Query<&str> / Item<&str>: -1 Less, 0 Equal, 1 Greater.
\* ------------------------------------------------------------------------
\* The byte of each character the model's tokens use
Byte(c) == CASE c = "(" -> 40 [] c = ")" -> 41 [] c = "-" -> 45 [] c = ":" -> 58
             [] c = "a" -> 97 [] c = "b" -> 98 [] c = "c" -> 99 [] c = "d" -> 100
             [] c = "k" -> 107 [] c = "n" -> 110 [] c = "o" -> 111 [] c = "r" -> 114
             [] c = "x" -> 120 [] c = "y" -> 121

CmpInt(a, b) == IF a < b THEN -1 ELSE IF a > b THEN 1 ELSE 0

\* str::cmp: bytewise lexicographic
RECURSIVE CmpStr(_, _)
CmpStr(s, t) ==
    IF s = <<>> THEN (IF t = <<>> THEN 0 ELSE -1)
    ELSE IF t = <<>> THEN 1
    ELSE LET c == CmpInt(Byte(Head(s)), Byte(Head(t)))
         IN  IF c # 0 THEN c ELSE CmpStr(Tail(s), Tail(t))

VariantIndex(q) == CASE q.item = "AndChain" -> 0 [] q.item = "OrChain" -> 1 [] OTHER -> 2

RECURSIVE CmpQuery(_, _)
RECURSIVE CmpVec(_, _)

\* Vec<Query>::cmp: lexicographic
CmpVec(s, t) ==
    IF s = <<>> THEN (IF t = <<>> THEN 0 ELSE -1)
    ELSE IF t = <<>> THEN 1
    ELSE LET c == CmpQuery(Head(s), Head(t))
         IN  IF c # 0 THEN c ELSE CmpVec(Tail(s), Tail(t))

\* #[derive(Ord)] on Query { item, inverse }: the item first, then the flag
CmpQuery(p, q) ==
    LET v == CmpInt(VariantIndex(p), VariantIndex(q))
        c == IF v # 0 THEN v
             ELSE IF p.item = "Single" THEN CmpStr(p.tag, q.tag)
             ELSE CmpVec(p.items, q.items)
    IN  IF c # 0 THEN c
        ELSE CmpInt(IF p.inverse THEN 1 ELSE 0, IF q.inverse THEN 1 ELSE 0)

\* One insertion of a stable sort
RECURSIVE SortInsert(_, _)
SortInsert(sorted, q) ==
    IF sorted = <<>> THEN <<q>>
    ELSE IF CmpQuery(q, Head(sorted)) < 0 THEN <<q>> \o sorted
    ELSE <<Head(sorted)>> \o SortInsert(Tail(sorted), q)

\* Vec::sort
RECURSIVE VecSort(_)
VecSort(items) ==
    IF items = <<>> THEN <<>>
    ELSE SortInsert(VecSort(SubSeq(items, 1, Len(items) - 1)), Last(items))

\* Vec::dedup: drops an element equal to the one before it
RECURSIVE VecDedup(_)
VecDedup(items) ==
    IF Len(items) <= 1 THEN items
    ELSE LET rest == VecDedup(SubSeq(items, 1, Len(items) - 1))
         IN  IF Last(rest) = Last(items) THEN rest ELSE Append(rest, Last(items))

\* ------------------------------------------------------------------------
\* query/simplify.rs
\* ------------------------------------------------------------------------
RECURSIVE sort(_)
sort(self) ==
    IF IsChain(self)
    THEN [self EXCEPT !.items = VecSort([i \in 1..Len(self.items) |-> sort(self.items[i])])]
    ELSE self

RECURSIVE dedup(_)
dedup(self) ==
    IF IsChain(self)
    THEN [self EXCEPT !.items = VecDedup([i \in 1..Len(self.items) |-> dedup(self.items[i])])]
    ELSE self

\* Query::is_empty (query/util.rs)
is_empty(self) == IsChain(self) /\ self.items = <<>>

RECURSIVE remove_empty(_)
remove_empty(self) ==
    IF IsChain(self)
    THEN LET cleaned == [i \in 1..Len(self.items) |-> remove_empty(self.items[i])]
         IN  [self EXCEPT !.items = SelectSeq(cleaned, LAMBDA item : ~is_empty(item))]
    ELSE self

\* The children a removed chain hands to its parent, each with its inverse
\* XORed with the removed chain's
Absorbed(item) ==
    IF IsChain(item)
    THEN [i \in 1..Len(item.items) |->
            [item.items[i] EXCEPT !.inverse = Xor(@, item.inverse)]]
    ELSE <<>>

RECURSIVE remove_redundant_chains(_)
remove_redundant_chains(self) ==
    IF IsChain(self)
    THEN LET items     == [i \in 1..Len(self.items) |-> remove_redundant_chains(self.items[i])]
             same(q)   == q.item = self.item
             redundant == SelectSeq(items, same)
             kept      == SelectSeq(items, LAMBDA q : ~same(q))
         IN  [self EXCEPT !.items =
                 kept \o Concat([i \in 1..Len(redundant) |-> Absorbed(redundant[i])])]
    ELSE self

RECURSIVE remove_single_chains(_)
remove_single_chains(self) ==
    IF IsChain(self)
    THEN LET items == VecDedup(VecSort(
                         [i \in 1..Len(self.items) |->
                             dedup(sort(remove_single_chains(self.items[i])))]))
         IN  IF Len(items) = 1
             THEN QueryNew(items[1], Xor(self.inverse, items[1].inverse))
             ELSE [self EXCEPT !.items = items]
    ELSE self

simplify(self) ==
    dedup(sort(remove_empty(remove_redundant_chains(remove_single_chains(self)))))

\* ------------------------------------------------------------------------
\* lib.rs: the Db that db!(BooruPost) generates, with the TagIndex of
\* examples/tags.rs registered as the default index.  A post is its tag list.
\* ------------------------------------------------------------------------
RECURSIVE LoaderAddAll(_, _, _)
LoaderAddAll(items, records, id) ==
    IF records = <<>> THEN items
    ELSE LoaderAddAll(KeysLoaderAdd(items, id, Head(records)), Tail(records), id + 1)

\* An alive-set whose last word is left at Packed::MAX
DbNewBaseFullWords(n) ==
    IF n > 0 THEN QueryResultNew(Ones(((n - 1) \div PACKED_SIZE) + 1))
             ELSE QueryResultNew(<<>>)

\* Db::new: the alive-set of the ids 0..last_id
DbNewBase(n) ==
    IF n > 0
    THEN LET last_id == n - 1
             words   == (last_id \div PACKED_SIZE) + 1
             end     == (last_id % PACKED_SIZE) + 1
         IN  QueryResultNew([w \in 1..words |->
                                IF w = words THEN 0 .. (end - 1) ELSE PackedMAX])
    ELSE QueryResultNew(<<>>)

\* Db::new: every loader sees the records in id order, then loads
DbNewIndex(records) == KeysLoaderLoad(LoaderAddAll(EmptyMap, records, 0))

\* Db::query: [ok |-> TRUE, result |-> QueryResult] or [ok |-> FALSE, missing]
DbQuery(base, items, query) ==
    LET m == try_map(query, items)
    IN  IF m.ok THEN [ok |-> TRUE, result |-> QueryResultNew(Run(m.query, base.checks))]
        ELSE [ok |-> FALSE, missing |-> m.missing]

\* ------------------------------------------------------------------------
\* index/range.rs: ChunkedVec { vecs, chunk_size }
\* ------------------------------------------------------------------------
ChunkedVecNew(chunk_size) == [vecs |-> <<>>, chunk_size |-> chunk_size]

ChunkedVecIsEmpty(self) == \A i \in 1..Len(self.vecs) : self.vecs[i] = <<>>

ChunkedVecLen(self) == SumSeq([i \in 1..Len(self.vecs) |-> Len(self.vecs[i])])

\* The logical sequence: the concatenation of the chunks
ChunkedVecFlat(self) == Concat(self.vecs)

\* check_chunk putting the split-off half before the chunk it came from
check_chunk_half_first(self, index) ==
    LET vec == self.vecs[index + 1]
    IN  IF Len(vec) >= self.chunk_size * 2
        THEN LET half == SubSeq(vec, self.chunk_size + 1, Len(vec))
                 kept == SubSeq(vec, 1, self.chunk_size)
             IN  [self EXCEPT !.vecs = VecInsert([@ EXCEPT ![index + 1] = kept], index, half)]
        ELSE self

\* check_chunk(index), index 0-based
check_chunk(self, index) ==
    LET vec == self.vecs[index + 1]
    IN  IF Len(vec) >= self.chunk_size * 2
        THEN LET half == SubSeq(vec, self.chunk_size + 1, Len(vec))
                 kept == SubSeq(vec, 1, self.chunk_size)
             IN  [self EXCEPT !.vecs = VecInsert([@ EXCEPT ![index + 1] = kept], index + 1, half)]
        ELSE IF Len(vec) <= self.chunk_size \div 2
        THEN IF vec = <<>> THEN [self EXCEPT !.vecs = VecRemove(@, index)]
             ELSE IF index > 0
             THEN LET prev_vec == self.vecs[index]
                  IN  IF Len(prev_vec) + Len(vec) < self.chunk_size * 2
                      THEN [self EXCEPT !.vecs = VecRemove([@ EXCEPT ![index] = prev_vec \o vec],
                                                           index)]
                      ELSE self
             ELSE self
        ELSE self

\* ChunkedVec::push
ChunkedVecPush(self, element) ==
    IF self.vecs = <<>> THEN [self EXCEPT !.vecs = <<<<element>>>>]
    ELSE check_chunk([self EXCEPT !.vecs[Len(self.vecs)] = Append(@, element)],
                     Len(self.vecs) - 1)

\* for x in elements { self.push(x) }
RECURSIVE PushAll(_, _)
PushAll(self, elements) ==
    IF elements = <<>> THEN self
    ELSE PushAll(ChunkedVecPush(self, Head(elements)), Tail(elements))

\* ChunkedVec::insert: the loop over the chunks, vec_index 0-based.  The
\* loop ends without an insertion when index exceeds every chunk.
RECURSIVE InsertLoop(_, _, _, _)
InsertLoop(self, vec_index, index, element) ==
    IF vec_index >= Len(self.vecs) THEN self
    ELSE LET vec == self.vecs[vec_index + 1]
         IN  IF Len(vec) < index THEN InsertLoop(self, vec_index + 1, index - Len(vec), element)
             ELSE check_chunk([self EXCEPT !.vecs[vec_index + 1] = VecInsert(vec, index, element)],
                              vec_index)

\* ChunkedVec::insert, for index <= len (the assert)
ChunkedVecInsert(self, index, element) ==
    IF self.vecs = <<>> THEN [self EXCEPT !.vecs = <<<<element>>>>]
    ELSE InsertLoop(self, 0, index, element)

RECURSIVE RemoveLoop(_, _, _)
RemoveLoop(self, vec_index, index) ==
    IF vec_index >= Len(self.vecs) THEN self
    ELSE LET vec == self.vecs[vec_index + 1]
         IN  IF Len(vec) <= index THEN RemoveLoop(self, vec_index + 1, index - Len(vec))
             ELSE check_chunk([self EXCEPT !.vecs[vec_index + 1] = VecRemove(vec, index)],
                              vec_index)

\* ChunkedVec::remove, for index <= len (the assert)
ChunkedVecRemove(self, index) == RemoveLoop(self, 0, index)

\* slice::binary_search_by over one chunk, f(p) being the order of p against
\* the target: among several Equal elements any may be found, and the model
\* takes the lowest; Err(i) has i the number of elements that are Less.
SliceSearch(vec, f(_)) ==
    IF \E i \in 1..Len(vec) : f(vec[i]) = 0
    THEN <<TRUE, (CHOOSE i \in 1..Len(vec) : f(vec[i]) = 0 /\ \A j \in 1..(i - 1) : f(vec[j]) # 0) - 1>>
    ELSE <<FALSE, Cardinality({i \in 1..Len(vec) : f(vec[i]) < 0})>>

RECURSIVE SearchLoop(_, _, _, _)
SearchLoop(self, f(_), vec_index, index) ==
    IF vec_index >= Len(self.vecs) THEN <<FALSE, index>>
    ELSE LET vec == self.vecs[vec_index + 1]
             r   == SliceSearch(vec, f)
         IN  IF r[1] THEN <<TRUE, index + r[2]>>
             ELSE IF r[2] < Len(vec) THEN <<FALSE, index + r[2]>>
             ELSE SearchLoop(self, f, vec_index + 1, index + Len(vec))

\* ChunkedVec::binary_search_by
ChunkedVecBinarySearchBy(self, f(_)) ==
    IF ChunkedVecIsEmpty(self) THEN <<FALSE, 0>> ELSE SearchLoop(self, f, 0, 0)

\* ChunkedVec::binary_search over integers
ChunkedVecBinarySearch(self, x) ==
    LET f(p) == CmpInt(p, x) IN ChunkedVecBinarySearchBy(self, f)

\* ------------------------------------------------------------------------
\* index/range.rs: ChunkedVecIterator { chunked_vec, vecs_index, vec_index,
\* vecs_index_back, vec_index_back, exhausted_back }
\* ------------------------------------------------------------------------
ChunkedVecIteratorNew(chunked_vec) ==
    LET n               == Len(chunked_vec.vecs)
        vecs_index_back == (IF n >= 1 THEN n ELSE 1) - 1
        vec_index_back  == IF vecs_index_back < n
                           THEN LET m == Len(chunked_vec.vecs[vecs_index_back + 1])
                                IN  (IF m >= 1 THEN m ELSE 1) - 1
                           ELSE 0
    IN  [vecs_index |-> 0, vec_index |-> 0,
         vecs_index_back |-> vecs_index_back, vec_index_back |-> vec_index_back,
         exhausted_back |-> FALSE]

\* Iterator::next: <<item, iterator afterwards>>
IteratorNext(chunked_vec, it) ==
    IF it.vecs_index >= Len(chunked_vec.vecs) THEN <<None, it>>
    ELSE LET vec  == chunked_vec.vecs[it.vecs_index + 1]
             item == IF it.vec_index < Len(vec) THEN Some(vec[it.vec_index + 1]) ELSE None
         IN  <<item,
               IF it.vec_index + 1 >= Len(vec)
               THEN [it EXCEPT !.vecs_index = @ + 1, !.vec_index = 0]
               ELSE [it EXCEPT !.vec_index = @ + 1]>>

\* next_back indexes vecs[vecs_index_back] before anything else: on a
\* ChunkedVec without chunks the index is out of bounds and the call panics
NextBackPanics(chunked_vec, it) ==
    ~it.exhausted_back /\ it.vecs_index_back >= Len(chunked_vec.vecs)

\* DoubleEndedIterator::next_back where it does not panic
IteratorNextBack(chunked_vec, it) ==
    IF it.exhausted_back THEN <<None, it>>
    ELSE LET vec  == chunked_vec.vecs[it.vecs_index_back + 1]
             item == IF it.vec_index_back < Len(vec) THEN Some(vec[it.vec_index_back + 1])
                     ELSE None
         IN  <<item,
               IF it.vec_index_back = 0
               THEN IF it.vecs_index_back = 0 THEN [it EXCEPT !.exhausted_back = TRUE]
                    ELSE LET m == Len(chunked_vec.vecs[it.vecs_index_back])
                         IN  [it EXCEPT !.vecs_index_back = @ - 1,
                                        !.vec_index_back = (IF m >= 1 THEN m ELSE 1) - 1]
               ELSE [it EXCEPT !.vec_index_back = @ - 1]>>

\* iter() or iter().rev(): one step
IteratorStep(chunked_vec, it, rev) ==
    IF rev THEN IteratorNextBack(chunked_vec, it) ELSE IteratorNext(chunked_vec, it)

\* The items an iterator yields until its first None
RECURSIVE IteratorCollect(_, _, _)
IteratorCollect(chunked_vec, it, rev) ==
    LET r == IteratorStep(chunked_vec, it, rev)
    IN  IF r[1] = None THEN <<>> ELSE r[1] \o IteratorCollect(chunked_vec, r[2], rev)

\* Peekable { iter, peeked }: peeked is <<>> or <<item>>, item an Option
PeekableNew(chunked_vec) == [iter |-> ChunkedVecIteratorNew(chunked_vec), peeked |-> <<>>]

\* peek(): get_or_insert_with(|| iter.next()), r the step taken
PeekInsert(r) == <<r[1], [iter |-> r[2], peeked |-> <<r[1]>>]>>

PeekablePeek(chunked_vec, p, rev) ==
    IF p.peeked # <<>> THEN <<p.peeked[1], p>>
    ELSE PeekInsert(IteratorStep(chunked_vec, p.iter, rev))

\* next() with nothing peeked, r the step taken
NextThrough(p, r) == <<r[1], [p EXCEPT !.iter = r[2]]>>

PeekableNext(chunked_vec, p, rev) ==
    IF p.peeked # <<>> THEN <<p.peeked[1], [p EXCEPT !.peeked = <<>>]>>
    ELSE NextThrough(p, IteratorStep(chunked_vec, p.iter, rev))

\* ------------------------------------------------------------------------
\* query/multi_result.rs: MultiQueryResult { sources, results, matched,
\* remaining }
\* ------------------------------------------------------------------------
MultiQueryResultNew(results) ==
    [sources |-> [i \in 1..Len(results) |-> results[i][1]],
     results |-> [i \in 1..Len(results) |-> results[i][2]],
     matched |-> SumSeq([i \in 1..Len(results) |-> results[i][2].matched]),
     remaining |-> SumSeq([i \in 1..Len(results) |-> results[i][2].matched])]

\* source_index: Option<usize>, 0-based
source_index(self, source) ==
    IF \E i \in 1..Len(self.sources) : self.sources[i] = source
    THEN Some((CHOOSE i \in 1..Len(self.sources) :
                  /\ self.sources[i] = source
                  /\ \A j \in 1..(i - 1) : self.sources[j] # source) - 1)
    ELSE None

MultiQueryResultInsert(self, source, id) ==
    LET at == source_index(self, source)
    IN  IF at # None
        THEN IF ~QueryResultContains(self.results[at[1] + 1], id)
             THEN [self EXCEPT !.results[at[1] + 1] = QueryResultInsert(@, id),
                               !.matched = @ + 1, !.remaining = @ + 1]
             ELSE self
        ELSE [sources |-> Append(self.sources, source),
              results |-> Append(self.results, QueryResultInsert(QueryResultNew(<<>>), id)),
              matched |-> self.matched + 1,
              remaining |-> self.remaining + 1]

MultiQueryResultRemove(self, source, id) ==
    LET at == source_index(self, source)
    IN  IF at # None /\ QueryResultContains(self.results[at[1] + 1], id)
        THEN [self EXCEPT !.results[at[1] + 1] = QueryResultRemove(@, id),
                          !.matched = @ - 1, !.remaining = @ - 1]
        ELSE self

\* (value, id, result_index) < (value, id, result_index)
TupleLess(a, b) ==
    \/ a[1] < b[1]
    \/ a[1] = b[1] /\ a[2] < b[2]
    \/ a[1] = b[1] /\ a[2] = b[2] /\ a[3] < b[3]

\* while let Some((value, id)) = sort.peek(): the entries a sub-result does
\* not contain are passed over.  <<the head the loop breaks on or None, the
\* peekable afterwards>>; SkipStep is the loop body, r the peek made
RECURSIVE SkipLoop(_, _, _, _)
SkipStep(res, chunked_vec, rev, r) ==
    IF r[1] = None THEN r
    ELSE IF ~QueryResultContains(res, r[1][1][2])
    THEN SkipLoop(res, chunked_vec, PeekableNext(chunked_vec, r[2], rev)[2], rev)
    ELSE r

SkipLoop(res, chunked_vec, p, rev) ==
    SkipStep(res, chunked_vec, rev, PeekablePeek(chunked_vec, p, rev))

\* The head (value, id, result_index) against the best so far
BetterHead(rev, best, value) ==
    IF best = None THEN Some(value)
    ELSE IF rev /\ TupleLess(best[1], value) THEN Some(value)
    ELSE IF ~rev /\ TupleLess(value, best[1]) THEN Some(value)
    ELSE best

\* for (result_index, sort) in sorted.iter_mut().enumerate(): the highest
\* (reverse) or lowest head.  <<best or None, the peekables afterwards>>;
\* HeadsStep is the loop body, r the outcome of the while loop
RECURSIVE HeadsLoop(_, _, _, _, _, _)
HeadsStep(self, sorted, ps, rev, result_index, best, r) ==
    HeadsLoop(self, sorted, [ps EXCEPT ![result_index + 1] = r[2]], rev, result_index + 1,
              IF r[1] = None THEN best
              ELSE BetterHead(rev, best, <<r[1][1][1], r[1][1][2], result_index>>))

HeadsLoop(self, sorted, ps, rev, result_index, best) ==
    IF result_index >= Len(ps) THEN <<best, ps>>
    ELSE HeadsStep(self, sorted, ps, rev, result_index, best,
                   SkipLoop(self.results[result_index + 1], sorted[result_index + 1],
                            ps[result_index + 1], rev))

\* The merge that leaves the chosen iterator where it is
AdvanceNone(sorted, ps, rev, result_index) == ps

\* sorted[result_index].next()
Advance(sorted, ps, rev, result_index) ==
    [ps EXCEPT ![result_index + 1] = PeekableNext(sorted[result_index + 1], @, rev)[2]]

\* ids.push((result_index, id)) once ids_found exceeds index
PushFound(ids, found, skip, pair) == IF found > skip THEN Append(ids, pair) ELSE ids

\* loop { ... }: one iteration per entry taken from the heads; the loop
\* breaks without a head, or when a push brings ids to limit entries (limit
\* is at least 1 here).  MergeStep is the loop body, h the heads found
RECURSIVE MergeLoop(_, _, _, _, _, _, _, _)
MergeTaken(self, sorted, ps, rev, skip, limit, found, ids) ==
    IF Len(ids) >= limit THEN ids
    ELSE MergeLoop(self, sorted, ps, rev, skip, limit, found, ids)

MergeStep(self, sorted, rev, skip, limit, ids_found, ids, h) ==
    IF h[1] = None THEN ids
    ELSE MergeTaken(self, sorted, Advance(sorted, h[2], rev, h[1][1][3]), rev, skip, limit,
                    ids_found + 1,
                    PushFound(ids, ids_found + 1, skip, <<h[1][1][3], h[1][1][2]>>))

MergeLoop(self, sorted, ps, rev, skip, limit, ids_found, ids) ==
    MergeStep(self, sorted, rev, skip, limit, ids_found, ids,
              HeadsLoop(self, sorted, ps, rev, 0, None))

\* The ids of sorted[0].iter().map(|(_, id)| *id)
SecondOf(items) == [i \in 1..Len(items) |-> items[i][2]]

IterIds(chunked_vec) ==
    SecondOf(IteratorCollect(chunked_vec, ChunkedVecIteratorNew(chunked_vec), FALSE))

\* .map(|id| (0, id)).collect()
WithZero(out) == [i \in 1..Len(out) |-> <<0, out[i]>>]

\* if backwards { ids.reverse() }
Backwards(backwards, ids) == IF backwards THEN Reverse(ids) ELSE ids

\* MultiQueryResult::get_sorted: [panic, ids].  Reading backwards through an
\* ordered vector without chunks panics in next_back.
multi_get_sorted(self, sorted, m_index, m_limit, m_reverse) ==
    IF Len(self.results) # Len(sorted) THEN [panic |-> TRUE, ids |-> <<>>]
    ELSE IF m_limit = 0 THEN [panic |-> FALSE, ids |-> <<>>]
    ELSE IF m_index >= self.remaining THEN [panic |-> FALSE, ids |-> <<>>]
    ELSE LET take == Min(m_limit, self.remaining)
         IN  IF Len(self.results) = 1
             THEN LET only == self.results[1]
                      rev  == (m_index < only.matched) /\
                              ((m_index >= only.matched \div 2) # m_reverse)
                  IN  IF rev /\ NextBackPanics(sorted[1], ChunkedVecIteratorNew(sorted[1]))
                      THEN [panic |-> TRUE, ids |-> <<>>]
                      ELSE [panic |-> FALSE,
                            ids |-> WithZero(get_sorted(only, IterIds(sorted[1]), m_index, take,
                                                        m_reverse))]
             ELSE LET backwards == m_index >= self.remaining \div 2
                      rev       == IF backwards THEN ~m_reverse ELSE m_reverse
                      rest      == self.remaining - m_index
                      skip      == IF backwards
                                   THEN (IF rest >= take THEN rest ELSE take) - take
                                   ELSE m_index
                  IN  IF rev /\ \E i \in 1..Len(sorted) :
                                   NextBackPanics(sorted[i], ChunkedVecIteratorNew(sorted[i]))
                      THEN [panic |-> TRUE, ids |-> <<>>]
                      ELSE [panic |-> FALSE,
                            ids |-> Backwards(backwards,
                                       MergeLoop(self, sorted,
                                                 [i \in 1..Len(sorted) |-> PeekableNew(sorted[i])],
                                                 rev, skip, take, 0, <<>>))]

\* ------------------------------------------------------------------------
\* index/range.rs: RangeQuery, Bound, ChunkedVec::as_slices / get_first /
\* get_last, RangeIndexLoader, RangeIndex { ids, id_values, values }
\* ------------------------------------------------------------------------
RangeEQ(v) == [form |-> "EQ", a |-> v, b |-> v]

RangeGT(v) == [form |-> "GT", a |-> v, b |-> v]

RangeGTE(v) == [form |-> "GTE", a |-> v, b |-> v]

RangeLT(v) == [form |-> "LT", a |-> v, b |-> v]

RangeLTE(v) == [form |-> "LTE", a |-> v, b |-> v]

RangeRange(min, max) == [form |-> "Range", a |-> min, b |-> max]

RangeAll == [form |-> "All", a |-> 0, b |-> 0]

\* RangeQuery::is_match
is_match(self, v) ==
    CASE self.form = "EQ"    -> v = self.a
      [] self.form = "GT"    -> v > self.a
      [] self.form = "GTE"   -> v >= self.a
      [] self.form = "LT"    -> v < self.a
      [] self.form = "LTE"   -> v <= self.a
      [] self.form = "Range" -> v >= self.a /\ v <= self.b
      [] self.form = "All"   -> TRUE

\* std::ops::Bound<usize>
Included(n) == [bound |-> "Included", n |-> n]

Excluded(n) == [bound |-> "Excluded", n |-> n]

Unbounded == [bound |-> "Unbounded", n |-> 0]

\* (V, ID)::cmp
CmpPair(p, q) == IF p[1] # q[1] THEN CmpInt(p[1], q[1]) ELSE CmpInt(p[2], q[2])

\* as_slices: the loop over the chunks
RECURSIVE SlicesLoop(_, _, _, _, _)
SlicesLoop(self, vec_index, start, end, slices) ==
    IF vec_index >= Len(self.vecs) THEN slices
    ELSE LET vec == self.vecs[vec_index + 1]
         IN  IF Len(vec) <= start
             THEN SlicesLoop(self, vec_index + 1, start - Len(vec), end - Len(vec), slices)
             ELSE IF Len(vec) > end
             THEN Append(slices, SubSeq(vec, start + 1, end + 1))
             ELSE SlicesLoop(self, vec_index + 1, 0, end - Len(vec),
                             Append(slices, SubSeq(vec, start + 1, Len(vec))))

\* ChunkedVec::as_slices
as_slices(self, start0, end0) ==
    IF ChunkedVecIsEmpty(self) THEN << <<>> >>
    ELSE LET start == CASE start0.bound = "Included" -> start0.n
                        [] start0.bound = "Excluded" -> start0.n + 1
                        [] start0.bound = "Unbounded" -> 0
             len   == ChunkedVecLen(self)
             end   == CASE end0.bound = "Included" -> end0.n
                        [] end0.bound = "Excluded" -> (IF end0.n >= 1 THEN end0.n ELSE 1) - 1
                        [] end0.bound = "Unbounded" -> (IF len >= 1 THEN len ELSE 1) - 1
         IN  IF end0 = Excluded(start) THEN << <<>> >>
             ELSE IF start > end THEN << <<>> >>
             ELSE SlicesLoop(self, 0, start, end, <<>>)

\* vec.binary_search_by(|probe| f(probe).then(Greater)).unwrap_err(): no probe
\* compares Equal, so the search ends at the partition point of a sorted
\* chunk, the number of its elements that are Less
FirstPoint(vec, f(_)) == Cardinality({i \in 1..Len(vec) : f(vec[i]) < 0})

\* vec.binary_search_by(|probe| f(probe).then(Less)).unwrap_err(): the
\* number of elements that are Less or Equal
LastPoint(vec, f(_)) == Cardinality({i \in 1..Len(vec) : f(vec[i]) <= 0})

\* get_first: the loop over the chunks
RECURSIVE GetFirstLoop(_, _, _, _)
GetFirstLoop(self, f(_), vec_index, g_index) ==
    IF vec_index >= Len(self.vecs) THEN <<FALSE, 0>>
    ELSE LET vec == self.vecs[vec_index + 1]
             k   == FirstPoint(vec, f)
         IN  IF vec_index + 1 < Len(self.vecs) /\ vec # <<>> /\ f(Last(vec)) < 0
             THEN GetFirstLoop(self, f, vec_index + 1, g_index + Len(vec))
             ELSE IF k < Len(vec) /\ f(vec[k + 1]) = 0 THEN <<TRUE, g_index + k>>
             ELSE <<FALSE, g_index + k>>

\* ChunkedVec::get_first
get_first(self, f(_)) == GetFirstLoop(self, f, 0, 0)

\* get_last: the loop over the chunks from the last, vec_index 1-based and
\* g_index the position after chunk vec_index
RECURSIVE GetLastLoop(_, _, _, _)
GetLastLoop(self, f(_), vec_index, g_index) ==
    IF vec_index < 1 THEN <<FALSE, 0>>
    ELSE LET vec  == self.vecs[vec_index]
             base == g_index - Len(vec)
             k    == LastPoint(vec, f)
         IN  IF vec # <<>> /\ f(vec[1]) > 0
             THEN GetLastLoop(self, f, vec_index - 1, base)
             ELSE IF k > 0 /\ f(vec[k]) = 0 THEN <<TRUE, base + k - 1>>
             ELSE <<FALSE, base + k>>

\* ChunkedVec::get_last
get_last(self, f(_)) == GetLastLoop(self, f, Len(self.vecs), ChunkedVecLen(self))

\* RangeIndexLoader { id_values, values }
RangeIndexLoaderNew == [id_values |-> EmptyMap, values |-> <<>>]

RangeIndexLoaderAdd(self, id, v) ==
    [id_values |-> MapPut(self.id_values, id, v), values |-> Append(self.values, <<v, id>>)]

\* self.values.sort_unstable(): ascending by (value, id); equal pairs are
\* indistinguishable, so the order is determined
RECURSIVE SortPairs(_)
SortPairs(values) ==
    IF values = <<>> THEN <<>>
    ELSE LET least == CHOOSE i \in 1..Len(values) :
                         \A j \in 1..Len(values) : CmpPair(values[i], values[j]) <= 0
         IN  <<values[least]>> \o SortPairs(VecRemove(values, least - 1))

\* the chunk parameter of a RangeIndex, 100_000 in the source, scaled
RangeChunkSize == 2

\* RangeIndexLoader::load
RangeIndexLoaderLoad(self) ==
    [ids |-> PushAll(ChunkedVecNew(RangeChunkSize), SecondOf(SortPairs(self.values))),
     id_values |-> self.id_values,
     values |-> PushAll(ChunkedVecNew(RangeChunkSize), SortPairs(self.values))]

\* The insertion that pushes the id instead of placing it at index
InsertAtPush(self, id, value, r) ==
    IF r[1] THEN self
    ELSE [self EXCEPT !.ids = ChunkedVecPush(@, id),
                      !.values = ChunkedVecInsert(@, r[2], <<value, id>>)]

\* let Err(index) = self.values.binary_search(&value_id) else { return }
InsertAt(self, id, value, r) ==
    IF r[1] THEN self
    ELSE [self EXCEPT !.ids = ChunkedVecInsert(@, r[2], id),
                      !.values = ChunkedVecInsert(@, r[2], <<value, id>>)]

\* ChunkedVec::binary_search over (value, id) pairs
PairSearch(self, x) == LET f(p) == CmpPair(p, x) IN ChunkedVecBinarySearchBy(self, f)

\* RangeIndex::insert
RangeIndexInsert(self, id, value) ==
    InsertAt([self EXCEPT !.id_values = MapPut(@, id, value)], id, value,
             PairSearch(self.values, <<value, id>>))

\* let Ok(index) = self.values.binary_search(&value_id) else { return }
RemoveAt(self, r) ==
    IF ~r[1] THEN self
    ELSE [self EXCEPT !.ids = ChunkedVecRemove(@, r[2]),
                      !.values = ChunkedVecRemove(@, r[2])]

\* RangeIndex::remove
RangeIndexRemove(self, id, value) ==
    RemoveAt([self EXCEPT !.id_values = MapDel(@, id)], PairSearch(self.values, <<value, id>>))

\* RangeIndex::update
RangeIndexUpdate(self, id, old, new) ==
    IF old = new THEN self
    ELSE RangeIndexInsert(RangeIndexRemove(self, id, old), id, new)

\* get_first / get_last with |probe| probe.0.cmp(value)
FirstOf(self, value) == LET f(p) == CmpInt(p[1], value) IN get_first(self.values, f)

LastOf(self, value) == LET f(p) == CmpInt(p[1], value) IN get_last(self.values, f)

\* .map(ok).unwrap_or_else(err) on a Result<usize, usize>
MapOrElse(r, ok, err) == [bound |-> IF r[1] THEN ok ELSE err, n |-> r[2]]

\* .ok()? twice
BothOk(first, last) ==
    IF ~first[1] \/ ~last[1] THEN None
    ELSE Some(<<Included(first[2]), Included(last[2])>>)

\* RangeIndex::eq / gt / gte / lt / lte / range: Option<(Bound, Bound)>
RangeIndexEq(self, value) == BothOk(FirstOf(self, value), LastOf(self, value))

RangeIndexGt(self, value) ==
    Some(<<MapOrElse(LastOf(self, value), "Excluded", "Included"), Unbounded>>)

RangeIndexGte(self, value) ==
    Some(<<MapOrElse(FirstOf(self, value), "Included", "Included"), Unbounded>>)

RangeIndexLt(self, value) ==
    Some(<<Unbounded, MapOrElse(FirstOf(self, value), "Excluded", "Excluded")>>)

RangeIndexLte(self, value) ==
    Some(<<Unbounded, MapOrElse(LastOf(self, value), "Included", "Excluded")>>)

\* range whose end is always Included
RangeIndexRangeIncluded(self, min, max) ==
    Some(<<MapOrElse(FirstOf(self, min), "Included", "Included"),
           MapOrElse(LastOf(self, max), "Included", "Included")>>)

RangeIndexRange(self, min, max) ==
    Some(<<MapOrElse(FirstOf(self, min), "Included", "Included"),
           MapOrElse(LastOf(self, max), "Included", "Excluded")>>)

\* Item::OrChain of one Single(IDs(slice)) per slice
SlicesQuery(slices) ==
    OrChain([i \in 1..Len(slices) |-> Single(QIDs(slices[i]), FALSE)], FALSE)

\* the Query built from the range
RangeQueryOf(self, range) ==
    IF range = None THEN Single(QIDs(<<>>), FALSE)
    ELSE SlicesQuery(as_slices(self.ids, range[1][1], range[1][2]))

\* RangeIndex::get
RangeIndexGet(self, query) ==
    RangeQueryOf(self,
        CASE query.form = "EQ"    -> RangeIndexEq(self, query.a)
          [] query.form = "GT"    -> RangeIndexGt(self, query.a)
          [] query.form = "GTE"   -> RangeIndexGte(self, query.a)
          [] query.form = "LT"    -> RangeIndexLt(self, query.a)
          [] query.form = "LTE"   -> RangeIndexLte(self, query.a)
          [] query.form = "Range" -> RangeIndexRange(self, query.a, query.b)
          [] query.form = "All"   -> Some(<<Included(0), Unbounded>>))

\* ------------------------------------------------------------------------
\* State
\* ------------------------------------------------------------------------
VARIABLES
    base_checks,   \* Db.base_checks: the alive-set, a QueryResult
    index,         \* the default index: KeysIndex.items
    posts,         \* the caller's records: alive id -> tag list
    removed,       \* the ids whose most recent mutation was db.remove
    nops,          \* number of mutations applied after the load
    last           \* <<>> or <<[text, simplified, ast, res]>>: the db.query that
                   \* ends the run, and its answer.  db.query takes &self and
                   \* changes nothing, so every Db state is reached without it.

VARIABLES
    input,         \* the query text a caller works on, as its token list
    stage,         \* "idle", "text", "parsed", "parse_error" or "answered"
    ast,           \* <<>> or <<q>>: the Query<&str> the caller holds
    nsimp          \* number of simplify() calls applied to ast

VARIABLES
    result,        \* the QueryResult a caller holds
    rstage,        \* "idle", "ready", "paging", "paged", "drawn" or "sorted"
    rops,          \* number of insert / remove calls applied to result
    pg,            \* the caller's pagination: [k, reverse, index, ids]
    rnd,           \* <<>> or <<[before, limit, out]>>: the get_random call made
    srt            \* <<>> or <<[sort, index, limit, reverse, out]>>: the get_sorted call made

VARIABLES
    cv,            \* a ChunkedVec of integers in a caller's hands
    flat,          \* the plain vector the caller applies the same operations to
    mq,            \* a MultiQueryResult in a caller's hands
    mcall,         \* <<>> or <<[sorted, index, limit, reverse, out]>>: the
                   \* MultiQueryResult::get_sorted call made
    ri,            \* [it, got]: a RangeIndex and <<>> or <<[query, out]>>, the
                   \* get call made on it
    tx,            \* a TextIndex
    ld,            \* a DbLoader and the Db it loads
    conv,          \* an ID vector and its conversions
    vcall          \* <<>> or <<[op, index, len, before, panic]>>: the ChunkedVec call made
                   \* with an index of the caller's choice, and its outcome

extVars == <<cv, flat, mq, mcall, ri, tx, ld, conv, vcall>>

dbVars == <<base_checks, index, posts, removed, nops>>

resVars == <<result, rstage, rops, pg, rnd, srt>>

astVars == <<input, stage, ast, nsimp>>

vars == <<base_checks, index, posts, removed, nops, last, input, stage, ast, nsimp,
          result, rstage, rops, pg, rnd, srt, cv, flat, mq, mcall, ri, tx, ld, conv,
          vcall>>

\* The tags of the model: a and b occur in records, x in none
TagA == <<"a">>

TagB == <<"b">>

TagX == <<"x">>

\* The records a caller supplies (a tag list may repeat a tag)
PostSet == {<<TagA>>, <<TagB>>, <<TagA, TagB>>, <<TagA, TagA>>}

\* The ids a caller inserts after the load: the loaded range, and one id of
\* the second word of the alive-set
IdSet == (0 .. (MaxLoad - 1)) \cup {PACKED_SIZE}

Neg(tag) == <<"-">> \o tag

\* The query texts submitted to the Db, as split_whitespace yields them
QueryTexts == {
    <<TagA>>, <<Neg(TagA)>>, <<TagX>>, <<Neg(TagX)>>,
    <<TagA, TagB>>, <<TagA, Neg(TagB)>>,
    <<TagA, TokOr, TagB>>, <<Neg(TagA), TokOr, TagB>>, <<Neg(TagA), TokOr, Neg(TagB)>>,
    <<Neg(TagX), TokOr, TagA>>, <<TagX, TokOr, Neg(TagA)>>,
    <<TokNegOpen, TagA, TagB, TokClose>>,
    <<TokNegOpen, TagA, TokOr, TagB, TokClose>>,
    <<TokNegOpen, Neg(TagA), TokClose, TokOr, TagB>>,
    <<TagB, TokOr, TokOpen, TagA, TokOr, Neg(TagB), TokClose>>,
    <<TokNegOpen, TokNegOpen, TagA, TokOr, Neg(TagB), TokClose, TagB, TokClose>>,
    <<TokOpen, TokClose, Neg(TagA)>> }

InitDb ==
    /\ \E n \in 0..MaxLoad : \E records \in [1..n -> PostSet] :
          /\ base_checks = DbNewBase(n)
          /\ index = DbNewIndex(records)
          /\ posts = [id \in 0..(n - 1) |-> records[id + 1]]
    /\ removed = {}
    /\ nops = 0

AstIdle == input = <<>> /\ stage = "idle" /\ ast = <<>> /\ nsimp = 0

NoPaging == [k |-> 0, reverse |-> FALSE, index |-> 0, ids |-> <<>>]

ChunkIdle == cv = <<>> /\ flat = <<>>

MultiIdle == mq = <<>> /\ mcall = <<>>

RangeIdle == ri = <<>>

TextIdle == tx = <<>>

LoaderIdle == ld = <<>>

ConvIdle == conv = <<>>

CallIdle == vcall = <<>>

ExtIdle ==
    ChunkIdle /\ MultiIdle /\ RangeIdle /\ TextIdle /\ LoaderIdle /\ ConvIdle /\ CallIdle

ResultIdle ==
    /\ result = QueryResultNew(<<>>)
    /\ rstage = "idle"
    /\ rops = 0
    /\ pg = NoPaging
    /\ rnd = <<>>
    /\ srt = <<>>

\* db.insert(id, post), for an id that is not in use
DbInsert(id, post) ==
    /\ last = <<>>
    /\ nops < MaxOps
    /\ id \notin DOMAIN posts
    /\ base_checks' = QueryResultInsert(base_checks, id)
    /\ index' = KeysInsert(index, id, post)
    /\ posts' = [x \in (DOMAIN posts) \cup {id} |-> IF x = id THEN post ELSE posts[x]]
    /\ removed' = removed \ {id}
    /\ nops' = nops + 1
    /\ last' = <<>>
    /\ UNCHANGED <<extVars, astVars, resVars>>

\* db.remove(id, post), with the record the caller holds for id
DbRemove(id) ==
    /\ last = <<>>
    /\ nops < MaxOps
    /\ id \in DOMAIN posts
    /\ base_checks' = QueryResultRemove(base_checks, id)
    /\ index' = KeysRemove(index, id, posts[id])
    /\ posts' = [x \in (DOMAIN posts) \ {id} |-> posts[x]]
    /\ removed' = removed \cup {id}
    /\ nops' = nops + 1
    /\ last' = <<>>
    /\ UNCHANGED <<extVars, astVars, resVars>>

\* db.update(id, old, new), old being the record the caller holds for id
DbUpdate(id, new) ==
    /\ last = <<>>
    /\ nops < MaxOps
    /\ id \in DOMAIN posts
    /\ base_checks' = QueryResultInsert(base_checks, id)
    /\ index' = KeysUpdate(index, id, posts[id], new)
    /\ posts' = [posts EXCEPT ![id] = new]
    /\ removed' = removed \ {id}
    /\ nops' = nops + 1
    /\ last' = <<>>
    /\ UNCHANGED <<extVars, astVars, resVars>>

\* Query::parse(text), simplify() when the caller asks for it, db.query
DbQueryText(text, simplified) ==
    /\ last = <<>>
    /\ Parse(text).ok
    /\ LET parsed == Parse(text).query
           query  == IF simplified THEN simplify(parsed) ELSE parsed
       IN  last' = <<[text |-> text, simplified |-> simplified, ast |-> query,
                      res |-> DbQuery(base_checks, index, query)]>>
    /\ UNCHANGED <<extVars, dbVars, astVars, resVars>>

Init == InitDb /\ last = <<>> /\ AstIdle /\ ResultIdle /\ ExtIdle

Next ==
    \/ \E id \in IdSet, post \in PostSet : DbInsert(id, post)
    \/ \E id \in IdSet : DbRemove(id)
    \/ \E id \in IdSet, new \in PostSet : DbUpdate(id, new)
    \/ \E text \in QueryTexts, simplified \in BOOLEAN : DbQueryText(text, simplified)

Spec == Init /\ [][Next]_vars

\* ------------------------------------------------------------------------
\* The alive-set of a Db under any insert / remove / update calls: the
\* caller passes any id and any record, whatever the Db holds for the id.
\* posts keeps the record of each id whose latest call was insert or update
\* (or that was loaded and never touched since).
\* ------------------------------------------------------------------------
MaxTrack == 2

\* Numbers of records loaded: none, a partly filled first word, a word
\* filled to its last bit but one, a full word, and one id more
TrackLoads == {0, 1, 2, PACKED_SIZE - 1, PACKED_SIZE, PACKED_SIZE + 1}

TrackIds == {0, 1, PACKED_SIZE - 1, PACKED_SIZE, 2 * PACKED_SIZE}

TrackPosts == {<<TagA>>, <<TagB>>}

\* The records loaded: the first two carry the tag a, the others no tag
TrackRecords(n) == [i \in 1..n |-> IF i <= 2 THEN <<TagA>> ELSE <<>>]

\* The records up to the last one that carries a tag.  loader.add of a post
\* without tags runs its loop over no key and leaves the loader as it was, so
\* the index loaded from the whole list is the index loaded from this prefix.
TrackTagged(n) == SubSeq(TrackRecords(n), 1, IF n < 2 THEN n ELSE 2)

InitTrack ==
    /\ \E n \in TrackLoads :
          /\ base_checks = DbNewBase(n)
          /\ index = DbNewIndex(TrackTagged(n))
          /\ posts = [id \in 0..(n - 1) |-> TrackRecords(n)[id + 1]]
    /\ removed = {}
    /\ nops = 0
    /\ last = <<>> /\ AstIdle /\ ResultIdle /\ ExtIdle

\* db.insert(id, post)
TrackInsert(id, post) ==
    /\ nops < MaxTrack
    /\ base_checks' = QueryResultInsert(base_checks, id)
    /\ index' = KeysInsert(index, id, post)
    /\ posts' = MapPut(posts, id, post)
    /\ removed' = removed \ {id}
    /\ nops' = nops + 1
    /\ UNCHANGED <<last, extVars, astVars, resVars>>

\* db.remove(id, post)
TrackRemove(id, post) ==
    /\ nops < MaxTrack
    /\ base_checks' = QueryResultRemove(base_checks, id)
    /\ index' = KeysRemove(index, id, post)
    /\ posts' = MapDel(posts, id)
    /\ removed' = removed \cup {id}
    /\ nops' = nops + 1
    /\ UNCHANGED <<last, extVars, astVars, resVars>>

\* db.update(id, old, new)
TrackUpdate(id, old, new) ==
    /\ nops < MaxTrack
    /\ base_checks' = QueryResultInsert(base_checks, id)
    /\ index' = KeysUpdate(index, id, old, new)
    /\ posts' = MapPut(posts, id, new)
    /\ removed' = removed \ {id}
    /\ nops' = nops + 1
    /\ UNCHANGED <<last, extVars, astVars, resVars>>

NextTrack ==
    \/ \E id \in TrackIds, post \in TrackPosts : TrackInsert(id, post)
    \/ \E id \in TrackIds, post \in TrackPosts : TrackRemove(id, post)
    \/ \E id \in TrackIds, old \in TrackPosts, new \in TrackPosts : TrackUpdate(id, old, new)

SpecTrack == InitTrack /\ [][NextTrack]_vars

\* ------------------------------------------------------------------------
\* The query pipeline on a loaded Db, one call per step: Query::parse, then
\* any number of simplify() calls, then db.query.
\* ------------------------------------------------------------------------
MaxTokens == 3

MaxSimplify == 2

TokenAlphabet == {TagA, Neg(TagA), TagX, Neg(TagX), TokOr, TokOpen, TokNegOpen, TokClose}

\* str::split_whitespace on a text of characters: the maximal runs of
\* characters other than the blank
RECURSIVE SplitLoop(_, _, _)
SplitLoop(text, word, out) ==
    IF text = <<>> THEN (IF word = <<>> THEN out ELSE Append(out, word))
    ELSE IF Head(text) = " "
         THEN SplitLoop(Tail(text), <<>>, IF word = <<>> THEN out ELSE Append(out, word))
         ELSE SplitLoop(Tail(text), Append(word, Head(text)), out)

split_whitespace(text) == SplitLoop(text, <<>>, <<>>)

\* The text "a and (b and c)", and the same with its parentheses set apart
NestedAndText ==
    <<"a", " ", "a", "n", "d", " ", "(", "b", " ", "a", "n", "d", " ", "c", ")">>

SpacedAndText ==
    <<"a", " ", "a", "n", "d", " ", "(", " ", "b", " ", "a", "n", "d", " ", "c", " ", ")">>

AndTexts == {split_whitespace(NestedAndText), split_whitespace(SpacedAndText)}

\* Token streams: every stream of at most MaxTokens tokens, and the longer
\* texts of QueryTexts and LongTexts
LongTexts == {
    <<TagA, TokOr, TokNegOpen, TagB, TokOr, TagX, TokClose>>,
    <<TokNegOpen, Neg(TagX), TagA, TokClose>>,
    <<TokOpen, TagA, TokClose, TagB>>,
    <<TokOpen, TokOpen, TagA, TokClose, TokClose>>,
    <<TokOpen, TagA, TokClose, TokClose, TagB>>,
    <<TokOpen, TokOpen, TagA, TokClose>> }

Streams ==
    UNION {[1..n -> TokenAlphabet] : n \in 0..MaxTokens} \cup QueryTexts \cup LongTexts \cup AndTexts

InitAst ==
    /\ InitDb
    /\ last = <<>>
    /\ input \in Streams
    /\ stage = "text"
    /\ ast = <<>>
    /\ nsimp = 0
    /\ ResultIdle
    /\ ExtIdle

\* Query::parse(input)
ParseText ==
    /\ stage = "text"
    /\ LET r == Parse(input)
       IN  IF r.ok THEN stage' = "parsed" /\ ast' = <<r.query>>
                   ELSE stage' = "parse_error" /\ ast' = <<>>
    /\ UNCHANGED <<extVars, dbVars, resVars, last, input, nsimp>>

\* ast.simplify()
SimplifyAst ==
    /\ stage = "parsed"
    /\ nsimp < MaxSimplify
    /\ ast' = <<simplify(ast[1])>>
    /\ nsimp' = nsimp + 1
    /\ UNCHANGED <<extVars, dbVars, resVars, last, input, stage>>

\* db.query(&ast)
QueryAst ==
    /\ stage = "parsed"
    /\ last' = <<[text |-> input, simplified |-> nsimp > 0, ast |-> ast[1],
                  res |-> DbQuery(base_checks, index, ast[1])]>>
    /\ stage' = "answered"
    /\ UNCHANGED <<extVars, dbVars, resVars, input, ast, nsimp>>

NextAst == ParseText \/ SimplifyAst \/ QueryAst

SpecAst == InitAst /\ [][NextAst]_vars

\* ------------------------------------------------------------------------
\* A QueryResult in a caller's hands: QueryResult::new over a bitmap, insert
\* and remove, then either pages of get until an empty one, or get_random.
\* ------------------------------------------------------------------------
MaxResultOps == 1

MaxPage == 3

MaxLimit == 2

MaxDraw == 5

MaxSort == 3

\* The ids of the bitmaps: both ends of the first two words, and both sides
\* of the border between the first two chunks of CHECKS_CHUNK_SIZE ids
ResultIds == {0, PACKED_SIZE - 1, PACKED_SIZE, CHECKS_CHUNK_SIZE - 1, CHECKS_CHUNK_SIZE,
              CHECKS_CHUNK_SIZE + PACKED_SIZE - 1}

\* The bitmap of len words holding the ids of S
BitmapOf(S, len) == [w \in 1..len |-> {id % PACKED_SIZE : id \in {x \in S : x \div PACKED_SIZE = w - 1}}]

WordsFor(S) == IF S = {} THEN 0 ELSE (CHOOSE m \in S : \A x \in S : x <= m) \div PACKED_SIZE + 1

InitResult ==
    /\ base_checks = DbNewBase(0)
    /\ index = DbNewIndex(<<>>)
    /\ posts = <<>>
    /\ removed = {}
    /\ nops = 0
    /\ last = <<>>
    /\ AstIdle
    /\ \E S \in SUBSET ResultIds, pad \in 0..1 :
          result = QueryResultNew(BitmapOf(S, WordsFor(S) + pad))
    /\ rstage = "ready"
    /\ rops = 0
    /\ pg = NoPaging
    /\ rnd = <<>>
    /\ srt = <<>>
    /\ ExtIdle

\* result.insert(id)
ResultInsert(id) ==
    /\ rstage = "ready"
    /\ rops < MaxResultOps
    /\ result' = QueryResultInsert(result, id)
    /\ rops' = rops + 1
    /\ UNCHANGED <<extVars, dbVars, astVars, last, rstage, pg, rnd, srt>>

\* result.remove(id)
ResultRemove(id) ==
    /\ rstage = "ready"
    /\ rops < MaxResultOps
    /\ result' = QueryResultRemove(result, id)
    /\ rops' = rops + 1
    /\ UNCHANGED <<extVars, dbVars, astVars, last, rstage, pg, rnd, srt>>

\* result.get(index, k, reverse) for the next page of a pagination with page
\* size k; the caller stops at the first empty page
GetPage(k, reverse) ==
    /\ \/ rstage = "ready"
       \/ rstage = "paging" /\ pg.k = k /\ pg.reverse = reverse
    /\ LET at   == IF rstage = "ready" THEN 0 ELSE pg.index
           sofar == IF rstage = "ready" THEN <<>> ELSE pg.ids
           page == get(result, at, k, reverse)
       IN  /\ pg' = [k |-> k, reverse |-> reverse, index |-> at + k, ids |-> sofar \o page]
           /\ rstage' = IF page = <<>> THEN "paged" ELSE "paging"
    /\ UNCHANGED <<extVars, dbVars, astVars, last, result, rops, rnd, srt>>

\* result.get_random(limit), the generator yielding draws
GetRandom(limit, draws) ==
    /\ rstage = "ready"
    /\ LET out == get_random(result, limit, draws)
       IN  /\ rnd' = <<[before |-> result, limit |-> limit, out |-> out]>>
           /\ result' = out.result
    /\ rstage' = "drawn"
    /\ UNCHANGED <<extVars, dbVars, astVars, last, rops, pg, srt>>

\* The sort iterators a caller supplies: every order of at most MaxSort ids
Orders(S) == {f \in [1..Cardinality(S) -> S] : \A i, j \in 1..Cardinality(S) : i # j => f[i] # f[j]}

\* The ids of the sorted reads: two of one word, one of the next word and one
\* of the next chunk
SortIds == {0, 1, PACKED_SIZE, CHECKS_CHUNK_SIZE}

SortSeqs == UNION {Orders(S) : S \in {T \in SUBSET SortIds : Cardinality(T) <= MaxSort}}

\* result.get_sorted(sort, index, limit, reverse), sort listing every member
\* of result once
GetSorted(order, at, limit, reverse) ==
    /\ rstage = "ready"
    /\ BitmapIds(result.checks) \subseteq SeqRange(order)
    /\ srt' = <<[sort |-> order, index |-> at, limit |-> limit, reverse |-> reverse,
                 out |-> get_sorted(result, order, at, limit, reverse)]>>
    /\ rstage' = "sorted"
    /\ UNCHANGED <<extVars, dbVars, astVars, last, result, rops, pg, rnd>>

NextResult ==
    \/ \E id \in ResultIds : ResultInsert(id)
    \/ \E id \in ResultIds : ResultRemove(id)
    \/ \E k \in 1..MaxPage, reverse \in BOOLEAN : GetPage(k, reverse)
    \/ \E limit \in 0..MaxLimit : \E draws \in [1..limit -> 0..MaxDraw] : GetRandom(limit, draws)

SpecResult == InitResult /\ [][NextResult]_vars

\* A QueryResult read through get_sorted
InitSorted ==
    /\ base_checks = DbNewBase(0)
    /\ index = DbNewIndex(<<>>)
    /\ posts = <<>>
    /\ removed = {}
    /\ nops = 0
    /\ last = <<>>
    /\ AstIdle
    /\ \E S \in SUBSET SortIds : result = QueryResultNew(BitmapOf(S, WordsFor(S)))
    /\ rstage = "ready"
    /\ rops = 0
    /\ pg = NoPaging
    /\ rnd = <<>>
    /\ srt = <<>>
    /\ ExtIdle

NextSorted ==
    \E order \in SortSeqs, at \in 0..MaxSort, limit \in 0..MaxLimit, reverse \in BOOLEAN :
        GetSorted(order, at, limit, reverse)

SpecSorted == InitSorted /\ [][NextSorted]_vars

\* ------------------------------------------------------------------------
\* A ChunkedVec of integers kept sorted and free of duplicates, next to the
\* plain vector that takes the same operations.
\* ------------------------------------------------------------------------
MaxValue == 6

ChunkSizes == {2, 3}

coreVars == <<dbVars, last, astVars, resVars>>

CoreIdle ==
    /\ base_checks = DbNewBase(0)
    /\ index = DbNewIndex(<<>>)
    /\ posts = <<>>
    /\ removed = {}
    /\ nops = 0
    /\ last = <<>>
    /\ AstIdle
    /\ ResultIdle

InitChunk ==
    /\ CoreIdle /\ MultiIdle /\ RangeIdle /\ TextIdle /\ LoaderIdle /\ ConvIdle /\ CallIdle
    /\ \E chunk_size \in ChunkSizes : cv = ChunkedVecNew(chunk_size)
    /\ flat = <<>>

\* cv.push(x), x above every element
ChunkPush(x) ==
    /\ \A i \in 1..Len(flat) : flat[i] < x
    /\ cv' = ChunkedVecPush(cv, x)
    /\ flat' = Append(flat, x)
    /\ UNCHANGED <<coreVars, vcall, mq, mcall, ri, tx, ld, conv>>

\* cv.insert(i, x), i the place of x in the order, x not yet an element
ChunkInsert(i, x) ==
    /\ i <= Len(flat)
    /\ \A j \in 1..Len(flat) : IF j <= i THEN flat[j] < x ELSE flat[j] > x
    /\ cv' = ChunkedVecInsert(cv, i, x)
    /\ flat' = VecInsert(flat, i, x)
    /\ UNCHANGED <<coreVars, vcall, mq, mcall, ri, tx, ld, conv>>

\* cv.remove(i)
ChunkRemove(i) ==
    /\ i < Len(flat)
    /\ cv' = ChunkedVecRemove(cv, i)
    /\ flat' = VecRemove(flat, i)
    /\ UNCHANGED <<coreVars, vcall, mq, mcall, ri, tx, ld, conv>>

NextChunk ==
    \/ \E x \in 1..MaxValue : ChunkPush(x)
    \/ \E i \in 0..MaxValue, x \in 1..MaxValue : ChunkInsert(i, x)
    \/ \E i \in 0..MaxValue : ChunkRemove(i)

SpecChunk == InitChunk /\ [][NextChunk]_vars

\* ------------------------------------------------------------------------
\* A ChunkedVec called with an index of the caller's choice: insert and
\* remove start with assert!(index <= self.len()), and a failed assert
\* panics before the vector is touched.
\* ------------------------------------------------------------------------
\* ChunkedVec::insert with its assert: the vector after the call, and
\* whether the call panicked
ChunkedVecInsertCall(self, at, element) ==
    IF at <= ChunkedVecLen(self)
    THEN [panic |-> FALSE, self |-> ChunkedVecInsert(self, at, element)]
    ELSE [panic |-> TRUE, self |-> self]

\* ChunkedVec::remove with its assert
ChunkedVecRemoveCall(self, at) ==
    IF at <= ChunkedVecLen(self)
    THEN [panic |-> FALSE, self |-> ChunkedVecRemove(self, at)]
    ELSE [panic |-> TRUE, self |-> self]

MaxIndex == 7

\* cv.push(x), x above every element
CallPush(x) ==
    /\ vcall = <<>>
    /\ \A i \in 1..Len(flat) : flat[i] < x
    /\ cv' = ChunkedVecPush(cv, x)
    /\ flat' = Append(flat, x)
    /\ UNCHANGED <<coreVars, vcall, mq, mcall, ri, tx, ld, conv>>

\* cv.insert(i, x) with any i, the call that ends the run
CallInsert(i, x) ==
    /\ vcall = <<>>
    /\ LET r == ChunkedVecInsertCall(cv, i, x)
       IN  /\ cv' = r.self
           /\ vcall' = <<[op |-> "insert", index |-> i, len |-> ChunkedVecLen(cv),
                         before |-> cv, panic |-> r.panic]>>
    /\ UNCHANGED <<coreVars, flat, mq, mcall, ri, tx, ld, conv>>

\* cv.remove(i) with any i, the call that ends the run
CallRemove(i) ==
    /\ vcall = <<>>
    /\ LET r == ChunkedVecRemoveCall(cv, i)
       IN  /\ cv' = r.self
           /\ vcall' = <<[op |-> "remove", index |-> i, len |-> ChunkedVecLen(cv),
                         before |-> cv, panic |-> r.panic]>>
    /\ UNCHANGED <<coreVars, flat, mq, mcall, ri, tx, ld, conv>>

NextCall ==
    \/ \E x \in 1..MaxValue : CallPush(x)
    \/ \E i \in 0..MaxIndex, x \in 1..MaxValue : CallInsert(i, x)
    \/ \E i \in 0..MaxIndex : CallRemove(i)

SpecCall == InitChunk /\ [][NextCall]_vars

\* ------------------------------------------------------------------------
\* A MultiQueryResult over several sources, read through get_sorted.
\* ------------------------------------------------------------------------
\* Largest number of sub-results
MaxResults == 2

SourceNames == <<"a", "b", "c", "d">>

MultiIds == {0, 1}

\* The ordered vectors of (value, id) a caller supplies, each listing an id
\* at most once: one without chunks, one of a chunk of one pair and a chunk
\* of two, one of two chunks of two that lists an id no sub-result holds
SortVecs ==
    {ChunkedVecNew(2),
     ChunkedVecRemove(PushAll(ChunkedVecNew(2), <<<<0, 3>>, <<1, 0>>, <<2, 1>>, <<3, 2>>>>), 0),
     PushAll(ChunkedVecNew(2), <<<<0, 3>>, <<1, 2>>, <<2, 1>>, <<3, 0>>>>)}

InitMulti ==
    /\ CoreIdle /\ ChunkIdle /\ RangeIdle /\ TextIdle /\ LoaderIdle /\ ConvIdle /\ CallIdle
    /\ \E n \in 1..MaxResults : \E members \in [1..n -> SUBSET MultiIds] :
          mq = MultiQueryResultNew(
                  [i \in 1..n |-> <<SourceNames[i],
                                    QueryResultNew(BitmapOf(members[i], WordsFor(members[i])))>>])
    /\ mcall = <<>>

\* multi.insert(source, id)
MultiInsert(source, id) ==
    /\ mcall = <<>>
    /\ source_index(mq, source) # None \/ Len(mq.results) < MaxResults
    /\ mq' = MultiQueryResultInsert(mq, source, id)
    /\ UNCHANGED <<coreVars, vcall, cv, flat, mcall, ri, tx, ld, conv>>

\* multi.remove(source, id)
MultiRemove(source, id) ==
    /\ mcall = <<>>
    /\ mq' = MultiQueryResultRemove(mq, source, id)
    /\ UNCHANGED <<coreVars, vcall, cv, flat, mcall, ri, tx, ld, conv>>

\* multi.get_sorted(&sorted, index, limit, reverse), one vector per sub-result
MultiGetSorted(sorted, at, limit, reverse) ==
    /\ mcall = <<>>
    /\ Len(sorted) = Len(mq.results)
    /\ mcall' = <<[sorted |-> sorted, index |-> at, limit |-> limit, reverse |-> reverse,
                   out |-> multi_get_sorted(mq, sorted, at, limit, reverse)]>>
    /\ UNCHANGED <<coreVars, vcall, cv, flat, mq, ri, tx, ld, conv>>

NextMulti ==
    \/ \E i \in 1..MaxResults, id \in MultiIds : MultiInsert(SourceNames[i], id)
    \/ \E i \in 1..MaxResults, id \in MultiIds : MultiRemove(SourceNames[i], id)
    \/ \E n \in 1..MaxResults : \E sorted \in [1..n -> SortVecs] :
          \E at \in 0..MaxPage, limit \in 0..MaxLimit, reverse \in BOOLEAN :
             MultiGetSorted(sorted, at, limit, reverse)

SpecMulti == InitMulti /\ [][NextMulti]_vars

\* ------------------------------------------------------------------------
\* A RangeIndex loaded from records, then changed and queried.
\* ------------------------------------------------------------------------
RangeIds == {0, 1, 2}

RangeValues == {1, 2}

\* EQ, GT, GTE, LT, LTE and Range over the stored values and one value
\* below and above them, and All
RangeQueries ==
    LET V == RangeValues \cup {0, 3}
    IN  {RangeEQ(v) : v \in V} \cup {RangeGT(v) : v \in V} \cup {RangeGTE(v) : v \in V}
        \cup {RangeLT(v) : v \in V} \cup {RangeLTE(v) : v \in V}
        \cup {RangeRange(a, b) : a \in V, b \in V} \cup {RangeAll}

\* loader.add(id, v) for the records in id order
RECURSIVE RangeAddAll(_, _, _)
RangeAddAll(self, record_values, id) ==
    IF id > 2 THEN self
    ELSE RangeAddAll(IF id \in DOMAIN record_values
                     THEN RangeIndexLoaderAdd(self, id, record_values[id]) ELSE self,
                     record_values, id + 1)

InitRange ==
    /\ CoreIdle /\ ChunkIdle /\ MultiIdle /\ TextIdle /\ LoaderIdle /\ ConvIdle /\ CallIdle
    /\ \E S \in SUBSET RangeIds : \E record_values \in [S -> RangeValues] :
          ri = [it |-> RangeIndexLoaderLoad(RangeAddAll(RangeIndexLoaderNew, record_values, 0)),
                got |-> <<>>]

\* index.insert(id, value)
RangeInsert(id, value) ==
    /\ ri.got = <<>>
    /\ ri' = [it |-> RangeIndexInsert(ri.it, id, value), got |-> <<>>]
    /\ UNCHANGED <<coreVars, vcall, cv, flat, mq, mcall, tx, ld, conv>>

\* index.remove(id, value)
RangeRemove(id, value) ==
    /\ ri.got = <<>>
    /\ ri' = [it |-> RangeIndexRemove(ri.it, id, value), got |-> <<>>]
    /\ UNCHANGED <<coreVars, vcall, cv, flat, mq, mcall, tx, ld, conv>>

\* index.update(id, old, new)
RangeUpdate(id, old, new) ==
    /\ ri.got = <<>>
    /\ ri' = [it |-> RangeIndexUpdate(ri.it, id, old, new), got |-> <<>>]
    /\ UNCHANGED <<coreVars, vcall, cv, flat, mq, mcall, tx, ld, conv>>

\* index.get(query), the call that ends the run: get takes &self
RangeGet(query) ==
    /\ ri.got = <<>>
    /\ ri' = [ri EXCEPT !.got = <<[query |-> query, out |-> RangeIndexGet(ri.it, query)]>>]
    /\ UNCHANGED <<coreVars, vcall, cv, flat, mq, mcall, tx, ld, conv>>

NextRange ==
    \/ \E id \in RangeIds, value \in RangeValues : RangeInsert(id, value)
    \/ \E id \in RangeIds, value \in RangeValues : RangeRemove(id, value)
    \/ \E id \in RangeIds, old \in RangeValues, new \in RangeValues : RangeUpdate(id, old, new)
    \/ \E query \in RangeQueries : RangeGet(query)

SpecRange == InitRange /\ [][NextRange]_vars

\* ------------------------------------------------------------------------
\* index/text.rs: a string is the sequence of its bytes
\* ------------------------------------------------------------------------
TextStartsWith(text) == [form |-> "StartsWith", text |-> text]

TextContains(text) == [form |-> "Contains", text |-> text]

TextEndsWith(text) == [form |-> "EndsWith", text |-> text]

\* str::starts_with, str::contains and str::ends_with
starts_with(s, text) == Len(text) <= Len(s) /\ SubSeq(s, 1, Len(text)) = text

contains(s, text) ==
    \E i \in 0..(Len(s) - Len(text)) : SubSeq(s, i + 1, i + Len(text)) = text

ends_with(s, text) ==
    Len(text) <= Len(s) /\ SubSeq(s, Len(s) - Len(text) + 1, Len(s)) = text

\* The order of [u8; N]
GramLess(a, b) ==
    \E i \in 1..Len(a) : a[i] < b[i] /\ \A j \in 1..(i - 1) : a[j] = b[j]

\* grams.sort(); grams.dedup()
RECURSIVE SortDedup(_)
SortDedup(S) ==
    IF S = {} THEN <<>>
    ELSE LET lo == CHOOSE a \in S : \A b \in S \ {a} : GramLess(a, b)
         IN  <<lo>> \o SortDedup(S \ {lo})

\* NgramIndex::<N>::grams: the N-byte windows of text
NgramGrams(N, text) ==
    SortDedup({SubSeq(text, i + 1, i + N) : i \in 0..(Len(text) - N)})

NgramIndexNew == [strings |-> <<>>]

\* NgramIndex::query: the shortest list among those of the grams of text
RECURSIVE QueryLoop(_, _, _)
QueryLoop(self, grams, smallest) ==
    IF grams = <<>> THEN smallest
    ELSE QueryLoop(self, Tail(grams),
                   IF Head(grams) \in DOMAIN self.strings
                      /\ (smallest = None \/ Len(self.strings[Head(grams)]) < Len(smallest[1]))
                   THEN Some(self.strings[Head(grams)])
                   ELSE smallest)

NgramQuery(self, N, text) == QueryLoop(self, NgramGrams(N, text), None)

\* self.strings.entry(gram).or_default()
EntryOrDefault(self, gram) ==
    IF gram \in DOMAIN self.strings THEN self.strings[gram] ELSE <<>>

\* binary_search_by_key(&id, |s| s.1) on a list ascending by id
SearchById(strings, id) ==
    IF \E i \in 1..Len(strings) : strings[i][2] = id
    THEN <<TRUE, (CHOOSE i \in 1..Len(strings) : strings[i][2] = id) - 1>>
    ELSE <<FALSE, Cardinality({i \in 1..Len(strings) : strings[i][2] < id})>>

InsertGram(self, gram, strings, id, text) ==
    [self EXCEPT !.strings =
        MapPut(self.strings, gram, VecInsert(strings, SearchById(strings, id)[2], <<text, id>>))]

\* NgramIndex::insert
RECURSIVE NgramInsertLoop(_, _, _, _)
NgramInsertLoop(self, grams, id, text) ==
    IF grams = <<>> THEN self
    ELSE NgramInsertLoop(InsertGram(self, Head(grams), EntryOrDefault(self, Head(grams)), id, text),
                         Tail(grams), id, text)

NgramInsert(self, N, id, text) == NgramInsertLoop(self, NgramGrams(N, text), id, text)

\* NgramIndex::push
RECURSIVE NgramPushLoop(_, _, _, _)
NgramPushLoop(self, grams, id, text) ==
    IF grams = <<>> THEN self
    ELSE NgramPushLoop([self EXCEPT !.strings =
                           MapPut(self.strings, Head(grams),
                                  Append(EntryOrDefault(self, Head(grams)), <<text, id>>))],
                       Tail(grams), id, text)

NgramPush(self, N, id, text) == NgramPushLoop(self, NgramGrams(N, text), id, text)

RemoveGram(self, gram, found, strings) ==
    IF ~found[1] THEN self
    ELSE IF Len(strings) = 1
    THEN [self EXCEPT !.strings = MapDel(self.strings, gram)]
    ELSE [self EXCEPT !.strings = MapPut(self.strings, gram, VecRemove(strings, found[2]))]

\* NgramIndex::remove
RECURSIVE NgramRemoveLoop(_, _, _)
NgramRemoveLoop(self, grams, id) ==
    IF grams = <<>> THEN self
    ELSE NgramRemoveLoop(IF Head(grams) \notin DOMAIN self.strings THEN self
                         ELSE RemoveGram(self, Head(grams),
                                         SearchById(self.strings[Head(grams)], id),
                                         self.strings[Head(grams)]),
                         Tail(grams), id)

NgramRemove(self, N, id, text) == NgramRemoveLoop(self, NgramGrams(N, text), id)

TextIndexLoaderNew ==
    [next_id |-> 0, ids_by_string |-> <<>>,
     n1gram_index |-> NgramIndexNew, n2gram_index |-> NgramIndexNew]

\* TextIndexLoader::add
TextIndexLoaderAdd(self, text) ==
    [next_id |-> self.next_id + 1,
     ids_by_string |-> MapPut(self.ids_by_string, text, self.next_id),
     n1gram_index |-> NgramPush(self.n1gram_index, 1, self.next_id, text),
     n2gram_index |-> NgramPush(self.n2gram_index, 2, self.next_id, text)]

\* TextIndexLoader::load
TextIndexLoaderLoad(self) == self

\* TextIndex::insert
TextIndexInsert(self, text) ==
    IF text \in DOMAIN self.ids_by_string THEN self
    ELSE [next_id |-> self.next_id + 1,
          ids_by_string |-> MapPut(self.ids_by_string, text, self.next_id),
          n1gram_index |-> NgramInsert(self.n1gram_index, 1, self.next_id, text),
          n2gram_index |-> NgramInsert(self.n2gram_index, 2, self.next_id, text)]

\* TextIndex::remove
TextIndexRemove(self, text) ==
    IF text \notin DOMAIN self.ids_by_string THEN self
    ELSE [next_id |-> self.next_id,
          ids_by_string |-> MapDel(self.ids_by_string, text),
          n1gram_index |-> NgramRemove(self.n1gram_index, 1, self.ids_by_string[text], text),
          n2gram_index |-> NgramRemove(self.n2gram_index, 2, self.ids_by_string[text], text)]

\* The choice of the list with the 2-gram index for every non-empty text
QueryBy2gram(self, text) ==
    IF Len(text) = 0 THEN None ELSE NgramQuery(self.n2gram_index, 2, text)

\* match text.len() { 0 => None, 1 => n1gram_index.query, _ => n2gram_index.query }
QueryByLen(self, text) ==
    IF Len(text) = 0 THEN None
    ELSE IF Len(text) = 1 THEN NgramQuery(self.n1gram_index, 1, text)
    ELSE NgramQuery(self.n2gram_index, 2, text)

\* while let (Some(b0), Some(b1)) = (bytes.next(), bytes.next()), then
\* grams.sort(); grams.dedup()
PairGrams(text) ==
    SortDedup({SubSeq(text, 2 * i - 1, 2 * i) : i \in 1..(Len(text) \div 2)})

\* grams.iter().filter_map(|g| self.n2gram_index.strings.get(g)).collect()
RECURSIVE FilterMapGet(_, _)
FilterMapGet(self, grams) ==
    IF grams = <<>> THEN <<>>
    ELSE (IF Head(grams) \in DOMAIN self.strings THEN <<self.strings[Head(grams)]>> ELSE <<>>)
         \o FilterMapGet(self, Tail(grams))

\* indexes.sort_by_key(|g| g.len()), a stable sort
RECURSIVE SortByLen(_)
SortByLen(indexes) ==
    IF indexes = <<>> THEN <<>>
    ELSE LET i == CHOOSE i \in 1..Len(indexes) :
                    /\ \A j \in 1..Len(indexes) : Len(indexes[i]) <= Len(indexes[j])
                    /\ \A j \in 1..(i - 1) : Len(indexes[i]) < Len(indexes[j])
         IN  <<indexes[i]>> \o SortByLen(VecRemove(indexes, i - 1))

\* The closure of retain for one id: <<kept, cursor>>
RECURSIVE RetainCursor(_, _, _)
RetainCursor(strings_b, cursor, id) ==
    IF cursor >= Len(strings_b) THEN <<FALSE, cursor>>
    ELSE IF strings_b[cursor + 1][2] < id THEN RetainCursor(strings_b, cursor + 1, id)
    ELSE IF strings_b[cursor + 1][2] = id THEN <<TRUE, cursor + 1>>
    ELSE <<FALSE, cursor>>

\* strings.retain(..) against one other list
RECURSIVE RetainLoop(_, _, _, _)
RetainStep(strings, strings_b, step, kept) ==
    RetainLoop(Tail(strings), strings_b, step[2],
               IF step[1] THEN Append(kept, Head(strings)) ELSE kept)

RetainLoop(strings, strings_b, cursor, kept) ==
    IF strings = <<>> THEN kept
    ELSE RetainStep(strings, strings_b, RetainCursor(strings_b, cursor, Head(strings)[2]), kept)

\* for strings_b in &indexes[1..]
RECURSIVE RetainAll(_, _)
RetainAll(strings, others) ==
    IF others = <<>> THEN strings
    ELSE RetainAll(RetainLoop(strings, Head(others), 0, <<>>), Tail(others))

IntersectSorted(indexes) == RetainAll(Head(indexes), Tail(indexes))

SmallerOf(strings, smallest) ==
    IF Len(strings) < Len(smallest) THEN strings ELSE smallest

\* The part of get for a text of four bytes or more: <<>> is the early
\* return, <<list>> the list get goes on with
NarrowPairs(self, grams, indexes, smallest) ==
    IF Len(grams) <= 1 THEN Some(smallest)
    ELSE IF Len(grams) # Len(indexes) THEN None
    ELSE Some(SmallerOf(IntersectSorted(SortByLen(indexes)), smallest))

\* The list get inspects, or None where get returns Vec::new() before it
\* inspects one
Narrow(self, text, found) ==
    IF found = None THEN None
    ELSE IF Len(text) >= 4
    THEN NarrowPairs(self, PairGrams(text),
                     FilterMapGet(self.n2gram_index, PairGrams(text)), found[1])
    ELSE found

TextIndexNarrow(self, query) == Narrow(self, query.text, QueryByLen(self, query.text))

is_text_match(query, s) ==
    CASE query.form = "StartsWith" -> starts_with(s, query.text)
      [] query.form = "Contains" -> contains(s, query.text)
      [] OTHER -> ends_with(s, query.text)

\* for (s, _) in smallest { if .. { matches.push(s.clone()) } }
RECURSIVE PushMatches(_, _, _)
PushMatches(query, smallest, matches) ==
    IF smallest = <<>> THEN matches
    ELSE PushMatches(query, Tail(smallest),
                     IF is_text_match(query, Head(smallest)[1])
                     THEN Append(matches, Head(smallest)[1]) ELSE matches)

\* The strings of the first list, pushed for a Contains of at most two bytes
FirstPush(query, found) ==
    IF Len(query.text) <= 2 /\ query.form = "Contains"
    THEN [i \in 1..Len(found) |-> found[i][1]]
    ELSE <<>>

GetFrom(query, found, narrowed) ==
    IF found = None \/ narrowed = None THEN <<>>
    ELSE PushMatches(query, narrowed[1], FirstPush(query, found[1]))

\* TextIndex::get
TextIndexGet(self, query) ==
    GetFrom(query, QueryByLen(self, query.text), TextIndexNarrow(self, query))

\* ------------------------------------------------------------------------
\* lib.rs: the registration of index loaders, Db::new and the routing of a
\* token.  An Option<String> identifier is <<>> or <<string>>; a type map
\* is a function of TypeId names; a token text is the sequence of its parts,
\* <<"p1", ":", "v">> for p1:v.
\* ------------------------------------------------------------------------
\* TypeId::of::<L>() of the loader types, and the type of the index that a
\* loader loads
LoaderTypes == {"KeysIndexLoader", "RangeIndexLoader"}

IndexTypeOf(type_id) ==
    IF type_id = "KeysIndexLoader" THEN "KeysIndex" ELSE "RangeIndex"

\* DbLoader::new, with the with_* calls made so far
DbLoaderNew ==
    [stage |-> "loader", identifiers |-> <<>>, loaders |-> <<>>, calls |-> <<>>,
     indexes |-> <<>>, routed |-> <<>>]

\* for identifier in identifiers { .. } of insert_loader: <<>> is the panic
RECURSIVE InsertIdentifiers(_, _, _)
InsertIdentifiers(identifiers, idents, type_id) ==
    IF idents = <<>> THEN Some(identifiers)
    ELSE IF Head(idents) \in DOMAIN identifiers THEN None
    ELSE InsertIdentifiers(MapPut(identifiers, Head(idents), type_id), Tail(idents), type_id)

InsertLoaderDone(self, inserted, idents, type_id) ==
    IF inserted = None
    THEN [self EXCEPT !.stage = "panic", !.calls = Append(@, [idents |-> idents, loader |-> type_id])]
    ELSE [self EXCEPT !.identifiers = inserted[1],
                      !.loaders = MapPut(self.loaders, type_id, [loader |-> type_id, added |-> 0]),
                      !.calls = Append(@, [idents |-> idents, loader |-> type_id])]

\* DbLoader::insert_loader, idents the Vec<Option<String>> it iterates
insert_loader(self, idents, type_id) ==
    InsertLoaderDone(self, InsertIdentifiers(self.identifiers, idents, type_id), idents, type_id)

\* DbLoader::with_default
with_default(self, type_id) == insert_loader(self, <<None>>, type_id)

\* DbLoader::with_loader, identifier.to_idents() mapped to Some
with_loader(self, identifier, type_id) ==
    insert_loader(self, [i \in 1..Len(identifier) |-> Some(identifier[i])], type_id)

\* for loader in loaders.values_mut() { loader.add(id, &post) }, per post
AddPosts(loaders, n) ==
    [t \in DOMAIN loaders |-> [loaders[t] EXCEPT !.added = @ + n]]

\* for (identifier, type_id) in identifiers of Db::new, in the order the
\* hash map yields them: <<>> is the panic of unwrap
RECURSIVE NewLoop(_, _, _, _, _)
NewLoop(order, identifiers, loaders, index_identifiers, indexes) ==
    IF order = <<>> THEN Some([identifiers |-> index_identifiers, indexes |-> indexes])
    ELSE IF identifiers[Head(order)] \notin DOMAIN loaders THEN None
    ELSE NewLoop(Tail(order), identifiers, MapDel(loaders, identifiers[Head(order)]),
                 MapPut(index_identifiers, Head(order), IndexTypeOf(identifiers[Head(order)])),
                 MapPut(indexes, IndexTypeOf(identifiers[Head(order)]),
                        [it |-> IndexTypeOf(identifiers[Head(order)]),
                         loaded |-> loaders[identifiers[Head(order)]].added]))

NewDone(self, made) ==
    IF made = None THEN [self EXCEPT !.stage = "panic"]
    ELSE [self EXCEPT !.stage = "db", !.identifiers = made[1].identifiers,
                      !.loaders = <<>>, !.indexes = made[1].indexes]

\* DbLoader::load, Db::new over n posts
DbLoaderLoad(self, n, order) ==
    NewDone(self, NewLoop(order, self.identifiers, AddPosts(self.loaders, n), <<>>, <<>>))

\* str::split_once(':') on a token text
SplitOnce(text) ==
    IF \E i \in 1..Len(text) : text[i] = ":"
    THEN LET at == CHOOSE i \in 1..Len(text) :
                       text[i] = ":" /\ \A j \in 1..(i - 1) : text[j] # ":"
         IN  Some(<<SubSeq(text, 1, at - 1), SubSeq(text, at + 1, Len(text))>>)
    ELSE None

\* The (ident, value) of a token in Db::query; an ident is one part
IdentValue(self, text, split) ==
    IF split # None /\ Len(split[1][1]) = 1 /\ Some(split[1][1][1]) \in DOMAIN self.identifiers
    THEN <<Some(split[1][1][1]), split[1][2]>>
    ELSE <<None, text>>

\* self.identifiers.get(&ident), type_id?, self.indexes.map.get(..).unwrap():
\* None is the token that no index takes
RouteTo(self, iv) ==
    IF iv[1] \notin DOMAIN self.identifiers THEN None
    ELSE Some([to |-> self.indexes[self.identifiers[iv[1]]].it, ident |-> iv[1], value |-> iv[2]])

\* The closure of try_map in Db::query, up to index.query(ident, value, inverse)
RouteToken(self, text) == RouteTo(self, IdentValue(self, text, SplitOnce(text)))

\* ------------------------------------------------------------------------
\* A TextIndex on its own: load, then insert and remove, then one get
\* ------------------------------------------------------------------------
MaxTextLoad == 2

MaxTextOps == 2

\* The bytes of the model: a and b
TextBytes == {97, 98}

\* "", "a", "ab", "abab", "abba" and "babba"
TextPool == {<<>>, <<97>>, <<97, 98>>, <<97, 98, 97, 98>>, <<97, 98, 98, 97>>,
             <<98, 97, 98, 98, 97>>}

\* Every text of one to four bytes, and "abbab" and "babba"
QueryTextSet ==
    (UNION {[1..n -> TextBytes] : n \in 1..4})
    \cup {<<97, 98, 98, 97, 98>>, <<98, 97, 98, 98, 97>>}

TextQueries ==
    {TextStartsWith(t) : t \in QueryTextSet} \cup {TextContains(t) : t \in QueryTextSet}
    \cup {TextEndsWith(t) : t \in QueryTextSet}

\* loader.add(text) for each text in turn
RECURSIVE TextAddAll(_, _)
TextAddAll(self, texts) ==
    IF texts = <<>> THEN self
    ELSE TextAddAll(TextIndexLoaderAdd(self, Head(texts)), Tail(texts))

\* tx: the index, the number of insert and remove calls made, and <<>> or
\* <<[query, bucket, out]>>, the get call made with the list it inspected
InitText ==
    /\ CoreIdle /\ ChunkIdle /\ MultiIdle /\ RangeIdle /\ LoaderIdle /\ ConvIdle /\ CallIdle
    /\ \E n \in 0..MaxTextLoad : \E texts \in [1..n -> TextPool] :
          /\ \A i \in 1..n, j \in 1..n : i # j => texts[i] # texts[j]
          /\ tx = [it |-> TextIndexLoaderLoad(TextAddAll(TextIndexLoaderNew, texts)),
                   ops |-> 0, got |-> <<>>]

\* index.insert(text)
TextInsert(text) ==
    /\ tx.got = <<>> /\ tx.ops < MaxTextOps
    /\ tx' = [tx EXCEPT !.it = TextIndexInsert(tx.it, text), !.ops = @ + 1]
    /\ UNCHANGED <<coreVars, vcall, cv, flat, mq, mcall, ri, ld, conv>>

\* index.remove(text)
TextRemove(text) ==
    /\ tx.got = <<>> /\ tx.ops < MaxTextOps
    /\ tx' = [tx EXCEPT !.it = TextIndexRemove(tx.it, text), !.ops = @ + 1]
    /\ UNCHANGED <<coreVars, vcall, cv, flat, mq, mcall, ri, ld, conv>>

\* index.get(&query), the call that ends the run: get takes &self
TextGet(query) ==
    /\ tx.got = <<>>
    /\ tx' = [tx EXCEPT !.got = <<[query |-> query,
                                   bucket |-> TextIndexNarrow(tx.it, query),
                                   out |-> TextIndexGet(tx.it, query)]>>]
    /\ UNCHANGED <<coreVars, vcall, cv, flat, mq, mcall, ri, ld, conv>>

NextText ==
    \/ \E text \in TextPool : TextInsert(text)
    \/ \E text \in TextPool : TextRemove(text)
    \/ \E query \in TextQueries : TextGet(query)

SpecText == InitText /\ [][NextText]_vars

\* ------------------------------------------------------------------------
\* TextQuery::from_str on its own: one token, then its parse.
\* ------------------------------------------------------------------------
\* The byte of '*'
Star == 42

\* <TextQuery as FromStr>::from_str
TextQueryFromStr(token) ==
    LET starts == Len(token) > 1 /\ token[Len(token)] = Star
        s1     == IF starts THEN SubSeq(token, 1, Len(token) - 1) ELSE token
        ends   == Len(s1) > 1 /\ s1[1] = Star
        s2     == IF ends THEN SubSeq(s1, 2, Len(s1)) ELSE s1
    IN  IF starts = ends THEN TextContains(s2)
        ELSE IF starts THEN TextStartsWith(s2)
        ELSE TextEndsWith(s2)

MaxToken == 4

\* Every token of at most MaxToken bytes out of a, b and *
ParseTokens == UNION {[1..n -> TextBytes \cup {Star}] : n \in 0..MaxToken}

InitParse ==
    /\ CoreIdle /\ ChunkIdle /\ MultiIdle /\ RangeIdle /\ LoaderIdle /\ ConvIdle /\ CallIdle
    /\ \E token \in ParseTokens : tx = [token |-> token, parsed |-> <<>>]

\* token.parse::<TextQuery>()
ParseToken ==
    /\ tx.parsed = <<>>
    /\ tx' = [tx EXCEPT !.parsed = <<TextQueryFromStr(tx.token)>>]
    /\ UNCHANGED <<coreVars, vcall, cv, flat, mq, mcall, ri, ld, conv>>

NextParse == ParseToken

SpecParse == InitParse /\ [][NextParse]_vars

\* ------------------------------------------------------------------------
\* A DbLoader on its own: with_default and with_loader calls, load, then
\* the routing of one token
\* ------------------------------------------------------------------------
MaxCalls == 2

MaxPosts == 2

Prefixes == {"p1", "p2", "p3"}

\* The identifier arguments of with_loader: &str and [&str; 2]
IdentifierArgs == {<<p>> : p \in Prefixes} \cup {<<p, q>> : p \in Prefixes, q \in Prefixes}

\* p:v for the prefixes and for one that is never registered, and v alone
TokenTexts == {<<p, ":", "v">> : p \in Prefixes \cup {"zz"}} \cup {<<"v">>}

\* The orders in which a hash map can yield its keys
KeyOrders(m) == {order \in [1..Cardinality(DOMAIN m) -> DOMAIN m] :
                    \A i \in DOMAIN order, j \in DOMAIN order : i # j => order[i] # order[j]}

InitLoader ==
    /\ CoreIdle /\ ChunkIdle /\ MultiIdle /\ RangeIdle /\ TextIdle /\ ConvIdle /\ CallIdle
    /\ ld = DbLoaderNew

\* loader.with_default(L)
LoaderWithDefault(type_id) ==
    /\ ld.stage = "loader" /\ Len(ld.calls) < MaxCalls
    /\ ld' = with_default(ld, type_id)
    /\ UNCHANGED <<coreVars, vcall, cv, flat, mq, mcall, ri, tx, conv>>

\* loader.with_loader(identifier, L)
LoaderWithLoader(identifier, type_id) ==
    /\ ld.stage = "loader" /\ Len(ld.calls) < MaxCalls
    /\ ld' = with_loader(ld, identifier, type_id)
    /\ UNCHANGED <<coreVars, vcall, cv, flat, mq, mcall, ri, tx, conv>>

\* loader.load(posts) for n posts, the hash map yielding its keys in any order
LoaderLoad(n) ==
    /\ ld.stage = "loader"
    /\ \E order \in KeyOrders(ld.identifiers) : ld' = DbLoaderLoad(ld, n, order)
    /\ UNCHANGED <<coreVars, vcall, cv, flat, mq, mcall, ri, tx, conv>>

\* db.query of a single token, the call that ends the run
LoaderQuery(text) ==
    /\ ld.stage = "db" /\ ld.routed = <<>>
    /\ ld' = [ld EXCEPT !.routed = <<[text |-> text, out |-> RouteToken(ld, text)]>>]
    /\ UNCHANGED <<coreVars, vcall, cv, flat, mq, mcall, ri, tx, conv>>

NextLoader ==
    \/ \E type_id \in LoaderTypes : LoaderWithDefault(type_id)
    \/ \E identifier \in IdentifierArgs, type_id \in LoaderTypes :
          LoaderWithLoader(identifier, type_id)
    \/ \E n \in 0..MaxPosts : LoaderLoad(n)
    \/ \E text \in TokenTexts : LoaderQuery(text)

SpecLoader == InitLoader /\ [][NextLoader]_vars

\* ------------------------------------------------------------------------
\* index/range.rs RangeQuery::from_str and examples/ai_tags.rs AiTagIndex.
\* A text is the sequence of its characters; a post is its ai_tags list of
\* <<tag, score>> pairs.
\* ------------------------------------------------------------------------
Digits == <<"0", "1", "2", "3", "4", "5", "6", "7", "8", "9">>

IsDigit(c) == \E d \in 1..10 : Digits[d] = c

DigitOf(c) == (CHOOSE d \in 1..10 : Digits[d] = c) - 1

U16Max == 65535

\* u32::MAX is 4_294_967_295; no text of the model has more than five digits,
\* and the largest 32-bit signed integer stands for it
U32Max == 2147483647

RECURSIVE DigitsValue(_, _, _)
\* the checked accumulation of from_str_radix: None on overflow
DigitsValue(s, acc, max) ==
    IF s = <<>> THEN Some(acc)
    ELSE IF acc > (max - DigitOf(Head(s))) \div 10 THEN None
    ELSE DigitsValue(Tail(s), acc * 10 + DigitOf(Head(s)), max)

\* <u16 as FromStr>::from_str and <u32 as FromStr>::from_str: an optional
\* '+', then one or more digits, within the type's range
ParseUnsigned(s, max) ==
    LET digits == IF s # <<>> /\ Head(s) = "+" THEN Tail(s) ELSE s
    IN  IF digits = <<>> \/ \E i \in 1..Len(digits) : ~IsDigit(digits[i]) THEN None
        ELSE DigitsValue(digits, 0, max)

\* str::find(".."): the index of the first occurrence, 0 when there is none
FindDots(s) ==
    IF \E i \in 1..(Len(s) - 1) : s[i] = "." /\ s[i + 1] = "."
    THEN CHOOSE i \in 1..(Len(s) - 1) :
            /\ s[i] = "." /\ s[i + 1] = "."
            /\ \A j \in 1..(i - 1) : ~(s[j] = "." /\ s[j + 1] = ".")
    ELSE 0

StripPrefix(s, prefix) ==
    IF starts_with(s, prefix) THEN Some(SubSeq(s, Len(prefix) + 1, Len(s))) ELSE None

\* Ok(build(value)) or Err(()) of one parsed value
ParsedValue(form, stripped) ==
    LET value == ParseUnsigned(stripped, U16Max)
    IN  IF value = None THEN None ELSE Some([form |-> form, a |-> value[1], b |-> value[1]])

\* <RangeQuery<u16> as FromStr>::from_str: Some(query) for Ok, None for Err
RangeQueryFromStr(s) ==
    IF FindDots(s) > 0
    THEN LET at   == FindDots(s)
             rest == SubSeq(s, at + 2, Len(s))
             min  == ParseUnsigned(SubSeq(s, 1, at - 1), U16Max)
             max  == ParseUnsigned(IF FindDots(rest) > 0
                                   THEN SubSeq(rest, 1, FindDots(rest) - 1) ELSE rest, U16Max)
         IN  IF min = None \/ max = None THEN None ELSE Some(RangeRange(min[1], max[1]))
    ELSE IF StripPrefix(s, <<">", "=">>) # None
         THEN ParsedValue("GTE", StripPrefix(s, <<">", "=">>)[1])
    ELSE IF StripPrefix(s, <<"<", "=">>) # None
         THEN ParsedValue("LTE", StripPrefix(s, <<"<", "=">>)[1])
    ELSE IF StripPrefix(s, <<">">>) # None THEN ParsedValue("GT", StripPrefix(s, <<">">>)[1])
    ELSE IF StripPrefix(s, <<"<">>) # None THEN ParsedValue("LT", StripPrefix(s, <<"<">>)[1])
    ELSE IF StripPrefix(s, <<"=">>) # None THEN ParsedValue("EQ", StripPrefix(s, <<"=">>)[1])
    ELSE ParsedValue("EQ", s)

\* RangeIndex::default()
RangeIndexDefault ==
    [ids |-> ChunkedVecNew(RangeChunkSize), id_values |-> EmptyMap,
     values |-> ChunkedVecNew(RangeChunkSize)]

\* AiTagIndexLoader::add
RECURSIVE AiLoaderAdd(_, _, _)
AiLoaderAdd(tags, id, ai_tags) ==
    IF ai_tags = <<>> THEN tags
    ELSE LET tag == Head(ai_tags)[1]
             cur == IF tag \in DOMAIN tags THEN tags[tag] ELSE RangeIndexLoaderNew
         IN  AiLoaderAdd(MapPut(tags, tag, RangeIndexLoaderAdd(cur, id, Head(ai_tags)[2])),
                         id, Tail(ai_tags))

RECURSIVE AiLoaderAddAll(_, _, _)
AiLoaderAddAll(tags, records, id) ==
    IF records = <<>> THEN tags
    ELSE AiLoaderAddAll(AiLoaderAdd(tags, id, Head(records)), Tail(records), id + 1)

\* AiTagIndexLoader::load
AiLoaderLoad(tags, name_to_id) ==
    [tags |-> [t \in DOMAIN tags |-> RangeIndexLoaderLoad(tags[t])], name_to_id |-> name_to_id]

\* the tag id the text names: a number with an index of its own, else a name
AiTagId(self, text) ==
    LET n == ParseUnsigned(text, U32Max)
    IN  IF n # None /\ n[1] \in DOMAIN self.tags THEN n
        ELSE IF text \in DOMAIN self.name_to_id THEN Some(self.name_to_id[text])
        ELSE None

\* AiTagIndex::query: None, or Some of the tag id, the range asked of its
\* index and the Query the index returns under the inverse flag
AiTagIndexQuery(self, text, inverse) ==
    LET split  == SplitOnce(text)
        q      == IF split = None THEN None ELSE RangeQueryFromStr(split[1][2])
        tag    == IF q # None THEN split[1][1] ELSE text
        range  == IF q # None THEN q[1] ELSE RangeAll
        tag_id == AiTagId(self, tag)
    IN  IF tag_id = None THEN None
        ELSE IF tag_id[1] \notin DOMAIN self.tags THEN None
        ELSE Some([tag_id |-> tag_id[1], range_query |-> range,
                   query |-> [RangeIndexGet(self.tags[tag_id[1]], range)
                                 EXCEPT !.inverse = inverse]])

\* AiTagIndex::insert
RECURSIVE AiTagIndexInsert(_, _, _)
AiTagIndexInsert(self, id, ai_tags) ==
    IF ai_tags = <<>> THEN self
    ELSE LET tag == Head(ai_tags)[1]
             cur == IF tag \in DOMAIN self.tags THEN self.tags[tag] ELSE RangeIndexDefault
         IN  AiTagIndexInsert(
                 [self EXCEPT !.tags = MapPut(@, tag, RangeIndexInsert(cur, id, Head(ai_tags)[2]))],
                 id, Tail(ai_tags))

\* AiTagIndex::remove
RECURSIVE AiTagIndexRemove(_, _, _)
AiTagIndexRemove(self, id, ai_tags) ==
    IF ai_tags = <<>> THEN self
    ELSE LET tag == Head(ai_tags)[1]
         IN  AiTagIndexRemove(
                 IF tag \in DOMAIN self.tags
                 THEN [self EXCEPT !.tags[tag] = RangeIndexRemove(@, id, Head(ai_tags)[2])]
                 ELSE self,
                 id, Tail(ai_tags))

\* AiTagIndex::update
AiTagIndexUpdate(self, id, old, new) ==
    IF old = new THEN self ELSE AiTagIndexInsert(AiTagIndexRemove(self, id, old), id, new)

\* ------------------------------------------------------------------------
\* An AiTagIndex loaded from records, then changed and queried.
\* ------------------------------------------------------------------------
MaxAiLoad == 2

AiIds == {0, 1}

\* The tags table: the name s is tag 7
AiNames == (<<"s">> :> 7)

AiPosts == {<<>>, <<<<7, 1>>>>, <<<<7, 2>>, <<8, 1>>>>}

\* tag texts: the id of a tag, a number that is no tag, a name and an
\* unknown name
AiTagTexts == {<<"7">>, <<"9">>, <<"s">>, <<"z">>}

\* range texts: one of each form that parses, and texts that do not
AiRangeTexts == {<<"1">>, <<"=", "1">>, <<">", "1">>, <<">", "=", "2">>, <<"<", "2">>,
                 <<"<", "=", "1">>, <<"1", ".", ".", "2">>, <<"+", "1">>,
                 <<>>, <<"x">>, <<">">>, <<"1", ".", ".">>, <<"-", "1">>,
                 <<"6", "5", "5", "3", "6">>}

AiTexts == AiTagTexts \cup {tag \o <<":">> \o range : tag \in AiTagTexts, range \in AiRangeTexts}

InitAi ==
    /\ CoreIdle /\ ChunkIdle /\ MultiIdle /\ TextIdle /\ LoaderIdle /\ ConvIdle /\ CallIdle
    /\ \E n \in 0..MaxAiLoad : \E records \in [1..n -> AiPosts] :
          ri = [it |-> AiLoaderLoad(AiLoaderAddAll(EmptyMap, records, 0), AiNames),
                ops |-> 0, got |-> <<>>]

MaxAiOps == 1

\* index.insert(id, post)
AiInsert(id, post) ==
    /\ ri.got = <<>> /\ ri.ops < MaxAiOps
    /\ ri' = [ri EXCEPT !.it = AiTagIndexInsert(ri.it, id, post), !.ops = @ + 1]
    /\ UNCHANGED <<coreVars, vcall, cv, flat, mq, mcall, tx, ld, conv>>

\* index.remove(id, post)
AiRemove(id, post) ==
    /\ ri.got = <<>> /\ ri.ops < MaxAiOps
    /\ ri' = [ri EXCEPT !.it = AiTagIndexRemove(ri.it, id, post), !.ops = @ + 1]
    /\ UNCHANGED <<coreVars, vcall, cv, flat, mq, mcall, tx, ld, conv>>

\* index.update(id, old, new)
AiUpdate(id, old, new) ==
    /\ ri.got = <<>> /\ ri.ops < MaxAiOps
    /\ ri' = [ri EXCEPT !.it = AiTagIndexUpdate(ri.it, id, old, new), !.ops = @ + 1]
    /\ UNCHANGED <<coreVars, vcall, cv, flat, mq, mcall, tx, ld, conv>>

\* index.query(ident, text, inverse), the call that ends the run
AiQuery(text, inverse) ==
    /\ ri.got = <<>>
    /\ ri' = [ri EXCEPT !.got = <<[text |-> text, inverse |-> inverse,
                                   out |-> AiTagIndexQuery(ri.it, text, inverse)]>>]
    /\ UNCHANGED <<coreVars, vcall, cv, flat, mq, mcall, tx, ld, conv>>

NextAi ==
    \/ \E id \in AiIds, post \in AiPosts : AiInsert(id, post)
    \/ \E id \in AiIds, post \in AiPosts : AiRemove(id, post)
    \/ \E id \in AiIds, old \in AiPosts, new \in AiPosts : AiUpdate(id, old, new)
    \/ \E text \in AiTexts, inverse \in BOOLEAN : AiQuery(text, inverse)

SpecAi == InitAi /\ [][NextAi]_vars

\* ------------------------------------------------------------------------
\* The conversions of query/util.rs on their own
\* ------------------------------------------------------------------------
\* Ids around the word boundaries of a short bitmap
ConvIds == {0, 1, 63, 64, 65, 128}

\* Strictly ascending vectors whose last id is around 2^24, where u32 values
\* stop being exact in f32
ConvWide == {<<2^24 - 1>>, <<2^24>>, <<0, 2^24 + 1>>}

ConvVectors == {Ascending(S) : S \in SUBSET ConvIds} \cup ConvWide

\* conv: the vector, the step reached, the length and the set bits of the
\* bitmap to_checks built, and the vector to_ids read back from it
InitConv ==
    /\ CoreIdle /\ ChunkIdle /\ MultiIdle /\ RangeIdle /\ TextIdle /\ LoaderIdle /\ CallIdle
    /\ \E ids \in ConvVectors :
          conv = [ids |-> ids, stage |-> "ids", words |-> 0, members |-> {}, back |-> <<>>]

\* let checks = to_checks(&ids)
ConvStep(checks) ==
    conv' = [conv EXCEPT !.stage = "checks", !.words = Len(checks),
                         !.members = BitmapIds(checks)]

ConvToChecks ==
    /\ conv.stage = "ids"
    /\ ConvStep(to_checks(conv.ids))
    /\ UNCHANGED <<coreVars, vcall, cv, flat, mq, mcall, ri, tx, ld>>

\* let back = to_ids(&checks)
ConvToIds ==
    /\ conv.stage = "checks"
    /\ conv' = [conv EXCEPT !.stage = "back", !.back = to_ids(to_checks(conv.ids))]
    /\ UNCHANGED <<coreVars, vcall, cv, flat, mq, mcall, ri, tx, ld>>

NextConv == ConvToChecks \/ ConvToIds

SpecConv == InitConv /\ [][NextConv]_vars

\* ------------------------------------------------------------------------
\* Claims
\* ------------------------------------------------------------------------
\* The ids of the alive-set
AliveIds == BitmapIds(base_checks.checks)

\* db.query(Query::parse(text)) on the current Db
ResultOf(text) == DbQuery(base_checks, index, Parse(text).query)

\* C1: every ID a successfully answered query returns is alive: it is a
\* loaded or inserted id whose most recent mutation was not db.remove, so no
\* id outside [0, N) right after the load and no removed id is contained.
C1_ResultWithinAlive ==
    (last # <<>> /\ last[1].res.ok) =>
        /\ BitmapIds(last[1].res.result.checks) \subseteq DOMAIN posts
        /\ \A id \in removed : ~QueryResultContains(last[1].res.result, id)
        /\ nops = 0 => \A id \in IdSet \ DOMAIN posts :
                          ~QueryResultContains(last[1].res.result, id)

\* C1 witness: after a removal, with a two-word alive-set, a query with a
\* negated group inside an OrChain was answered with a non-empty result.
C1_Witness ==
    /\ last # <<>>
    /\ last[1].text = <<TokNegOpen, Neg(TagA), TokClose, TokOr, TagB>>
    /\ last[1].res.ok
    /\ last[1].res.result.matched > 0
    /\ removed # {}
    /\ Len(base_checks.checks) = 2

\* C2: for every token T of the default index, result(T) and result(-T)
\* partition the alive-set.
C2_NegationPartition ==
    \A T \in DOMAIN index :
        LET pos == ResultOf(<<T>>)
            neg == ResultOf(<<Neg(T)>>)
        IN  /\ pos.ok /\ neg.ok
            /\ BitmapIds(pos.result.checks) \cup BitmapIds(neg.result.checks) = AliveIds
            /\ BitmapIds(pos.result.checks) \cap BitmapIds(neg.result.checks) = {}

\* C3: De Morgan on the ASTs as parsed: -( A B ) answers as -A or -B, and
\* -( A or B ) answers as -A -B, bit for bit, for all known tokens A and B.
C3_DeMorgan ==
    \A A \in DOMAIN index, B \in DOMAIN index :
        /\ ResultOf(<<TokNegOpen, A, B, TokClose>>) = ResultOf(<<Neg(A), TokOr, Neg(B)>>)
        /\ ResultOf(<<TokNegOpen, A, TokOr, B, TokClose>>) = ResultOf(<<Neg(A), Neg(B)>>)

\* The answer of db.query for an AST on the current Db
Answer(q) == DbQuery(base_checks, index, q)

\* C4: simplify preserves the answer: whenever X and simplify(X) are both
\* answered, their bitmaps are equal.
C4_SimplifyPreserves ==
    stage = "parsed" =>
        LET x == Answer(ast[1])
            y == Answer(simplify(ast[1]))
        IN  (x.ok /\ y.ok) => x.result.checks = y.result.checks

\* C5: simplify is idempotent.
C5_SimplifyIdempotent ==
    stage = "parsed" => simplify(simplify(ast[1])) = simplify(ast[1])

\* A token is known when the default index holds it
Known(tag) == tag \in DOMAIN index

\* The mapping of a child of the root, the root's own flag being its path
RootChildMap(root, child) == inner_try_map(child, index, root.inverse)

ChildResolves(root, child) ==
    IF child.item = "Single" THEN Known(child.tag) ELSE RootChildMap(root, child).ok

\* C6: the missing-tag rule of try_map, stated of the root X of an answered
\* query.  (a) an AndChain with an unknown Single child on a non-negated path
\* (root flag XOR child flag false) fails and reports the child's token;
\* (b) an OrChain with a resolvable child succeeds and keeps exactly as many
\* children as resolve; (c) an OrChain fails only when it is non-empty and
\* none of its children resolves.
C6_MissingTagRule ==
    stage = "answered" =>
        LET X   == last[1].ast
            res == last[1].res
            m   == try_map(X, index)
        IN  /\ X.item = "AndChain" =>
                  \A i \in 1..Len(X.items) :
                      LET c == X.items[i]
                      IN  (c.item = "Single" /\ ~Known(c.tag) /\ ~Xor(X.inverse, c.inverse))
                          => (~res.ok /\ c.tag \in SeqRange(res.missing))
            /\ X.item = "OrChain" =>
                  /\ (\E i \in 1..Len(X.items) : ChildResolves(X, X.items[i]))
                        => /\ res.ok
                           /\ Len(m.query.items) =
                                 Cardinality({i \in 1..Len(X.items) : ChildResolves(X, X.items[i])})
                  /\ ~res.ok => /\ X.items # <<>>
                                /\ \A i \in 1..Len(X.items) : ~ChildResolves(X, X.items[i])

\* The Singles of an AST with the negation of their path: the XOR of the
\* inverse flags from the root through the Single
RECURSIVE PathSingles(_, _)
PathSingles(q, above) ==
    LET neg == Xor(above, q.inverse)
    IN  IF q.item = "Single" THEN {[tag |-> q.tag, negated |-> neg]}
        ELSE UNION {PathSingles(q.items[i], neg) : i \in 1..Len(q.items)}

\* C7: an unknown Single on a negated path is never reported missing, and it
\* counts as matching every alive record under an AndChain (-x a answers as
\* a) and under an OrChain (-x or a answers with the whole alive-set).
C7_UnknownNegated ==
    stage = "answered" =>
        LET X   == last[1].ast
            res == last[1].res
        IN  /\ ~res.ok =>
                  \A t \in SeqRange(res.missing) :
                      \E s \in PathSingles(X, FALSE) : s.tag = t /\ ~s.negated
            /\ (input = <<Neg(TagX), TagA>> /\ Known(TagA)) =>
                  res = ResultOf(<<TagA>>)
            /\ (input = <<Neg(TagX), TokOr, TagA>> /\ Known(TagA)) =>
                  (res.ok /\ BitmapIds(res.result.checks) = AliveIds)

\* Parentheses balance: "(" and "-(" open, ")" closes, no ")" comes without
\* an opener before it and every opener is closed
RECURSIVE BalancedFrom(_, _)
BalancedFrom(toks, depth) ==
    IF toks = <<>> THEN depth = 0
    ELSE IF Head(toks) \in {TokOpen, TokNegOpen} THEN BalancedFrom(Tail(toks), depth + 1)
    ELSE IF Head(toks) = TokClose THEN depth > 0 /\ BalancedFrom(Tail(toks), depth - 1)
    ELSE BalancedFrom(Tail(toks), depth)

Balanced(toks) == BalancedFrom(toks, 0)

\* C8: Query::parse fails, leaving no AST, on every unbalanced token stream,
\* and yields a root AndChain with inverse = false on every balanced one.
C8_ParseBalance ==
    (stage \in {"parsed", "parse_error"} /\ nsimp = 0) =>
        IF Balanced(input)
        THEN stage = "parsed" /\ ast[1].item = "AndChain" /\ ~ast[1].inverse
        ELSE stage = "parse_error" /\ ast = <<>>

Reversed(s) == [i \in 1..Len(s) |-> s[Len(s) + 1 - i]]

RECURSIVE FilterMembers(_, _)
FilterMembers(order, members) ==
    IF order = <<>> THEN <<>>
    ELSE (IF Head(order) \in members THEN <<Head(order)>> ELSE <<>>)
         \o FilterMembers(Tail(order), members)

\* skip offset entries, take limit
Window(s, offset, limit) == SubSeq(s, offset + 1, Min(Len(s), offset + limit))

C13_ChunkSizes ==
    \A i \in 1..(Len(cv.vecs) - 1) :
        /\ Len(cv.vecs[i]) >= CeilDiv(cv.chunk_size, 2) + 1
        /\ Len(cv.vecs[i]) < 2 * cv.chunk_size

\* C14: the concatenation of the chunks is the plain vector that took the
\* same operations, and binary_search(x) answers as the binary search of that
\* vector: Ok(i) with i the place of x, or Err(i) with i the number of
\* elements below x.
C14_ChunkRefinesFlat ==
    /\ ChunkedVecFlat(cv) = flat
    /\ \A x \in 0..(MaxValue + 1) : ChunkedVecBinarySearch(cv, x) = BinarySearch(flat, x)

C14_Witness ==
    /\ Len(cv.vecs) = 3 /\ cv.chunk_size = 2 /\ Len(cv.vecs[1]) = 1
    /\ ChunkedVecBinarySearch(cv, 4) = <<TRUE, 2>>
    /\ ChunkedVecBinarySearch(cv, 0) = <<FALSE, 0>>


\* C12: one call of MultiQueryResult::get_sorted over ordered vectors that
\* list each id at most once never returns the same (result index, id) pair
\* twice.
C12_MultiSortedDistinct ==
    mcall # <<>> =>
        LET ids == mcall[1].out.ids
        IN  \A i, j \in 1..Len(ids) : ids[i] = ids[j] => i = j

C12_Witness ==
    /\ mcall # <<>>
    /\ Len(mq.results) = 2 /\ mq.remaining = 4
    /\ mcall[1].index = 2 /\ mcall[1].limit = 2 /\ mcall[1].reverse
    /\ ~mcall[1].out.panic
    /\ mcall[1].out.ids = <<<<1, 0>>, <<0, 0>>>>

\* The ids a Query of ID slices denotes: the union of its slices
SliceIds(q) ==
    IF q.item = "Single" THEN SeqRange(q.tag.data)
    ELSE UNION {SeqRange(q.items[i].tag.data) : i \in 1..Len(q.items)}

\* The ids whose stored pair (value, id) satisfies the query
MatchIds(self, query) ==
    {p[2] : p \in {x \in SeqRange(ChunkedVecFlat(self.values)) : is_match(query, x[1])}}

\* C15: RangeIndex.get agrees with RangeQuery.is_match: the union of the ID
\* slices of get(q) is the set of ids whose stored pair (value, id) has
\* q.is_match(value), for EQ, GT, GTE, LT, LTE, Range and All, and the empty
\* set when no stored value matches.
C15_GetAgreesWithIsMatch ==
    ri.got # <<>> => SliceIds(ri.got[1].out) = MatchIds(ri.it, ri.got[1].query)

C15_Witness ==
    /\ ri.got # <<>>
    /\ ri.it.values.vecs = << <<<<1, 0>>, <<1, 1>>>>, <<<<1, 2>>, <<2, 0>>>> >>
    /\ ri.got[1].query = RangeEQ(1)
    /\ ri.got[1].out = OrChain(<<Single(QIDs(<<0, 1>>), FALSE), Single(QIDs(<<2>>), FALSE)>>, FALSE)

\* C16: after load and after any insert / remove / update, values is sorted
\* ascending by (value, id), ids and values have the same length, and
\* ids[i] = values[i].1 at every position.
C16_RangePositional ==
    LET ids    == ChunkedVecFlat(ri.it.ids)
        values == ChunkedVecFlat(ri.it.values)
    IN  /\ Len(ids) = Len(values)
        /\ \A i \in 1..Len(values) : ids[i] = values[i][2]
        /\ \A i \in 1..(Len(values) - 1) : CmpPair(values[i], values[i + 1]) <= 0

C16_Witness ==
    /\ ri.got = <<>>
    /\ Len(ri.it.values.vecs) = 2
    /\ ChunkedVecFlat(ri.it.values) = <<<<1, 0>>, <<1, 2>>, <<2, 0>>, <<2, 1>>>>
    /\ ChunkedVecFlat(ri.it.ids) = <<0, 2, 0, 1>>

\* C17: for every key of the KeysIndex, in every state reached by the bulk
\* load (add in ascending id order, then load) and any insert / remove: a
\* Checks form has matched equal to the population count of its bitmap, and
\* an IDs form is strictly ascending, also when a record lists a key twice.
C17_OwnedInvariants ==
    \A key \in DOMAIN index :
        IF index[key].form = "Checks"
        THEN index[key].matched = PopCount(index[key].checks)
        ELSE \A i \in 1..(Len(index[key].ids) - 1) : index[key].ids[i] < index[key].ids[i + 1]

\* C18: for every strictly ascending ID vector v, the bitmap to_checks(v) has
\* exactly ceil((max(v) + 1) / 64) words and its set bits are the ids of v,
\* one per id, and to_ids reads v back from it.
C18_RoundTrip ==
    conv # <<>> =>
        /\ conv.stage \in {"checks", "back"} =>
              /\ conv.words = (IF conv.ids = <<>> THEN 0
                               ELSE CeilDiv(Last(conv.ids) + 1, PACKED_SIZE))
              /\ conv.members = SeqRange(conv.ids)
        /\ conv.stage = "back" => conv.back = conv.ids

\* The indexed strings that satisfy the predicate of a query
TextMatches(self, query) == {s \in DOMAIN self.ids_by_string : is_text_match(query, s)}

AliasCall(self, k) ==
    /\ k \in DOMAIN self.calls
    /\ Len(self.calls[k].idents) = 2
    /\ self.calls[k].idents[1] # None
    /\ self.calls[k].idents[2] # None
    /\ self.calls[k].idents[1] # self.calls[k].idents[2]
    /\ \A i \in DOMAIN self.calls, j \in DOMAIN self.calls :
          i # j => self.calls[i].loader # self.calls[j].loader

\* C20: once load has run on a DbLoader with one loader registered under
\* two prefixes at once (and no identifier registered twice), a Db exists,
\* and it routes p1:v and p2:v to the one index of that loader.
C20_MultiPrefixAliasing ==
    (ld # <<>> /\ ld.stage # "loader"
        /\ \A i \in DOMAIN ld.calls, j \in DOMAIN ld.calls, a \in 1..2, b \in 1..2 :
              (a \in DOMAIN ld.calls[i].idents /\ b \in DOMAIN ld.calls[j].idents
                  /\ <<i, a>> # <<j, b>>)
              => ld.calls[i].idents[a] # ld.calls[j].idents[b])
    => \A k \in DOMAIN ld.calls :
          AliasCall(ld, k) =>
              /\ ld.stage = "db"
              /\ \A a \in 1..2 :
                    LET out == RouteToken(ld, <<ld.calls[k].idents[a][1], ":", "v">>)
                    IN  /\ out # None
                        /\ out[1].to = IndexTypeOf(ld.calls[k].loader)
                        /\ out[1].value = <<"v">>

\* C21: right after a load of N records the alive-set has the words of the
\* ids 0..N-1 and no more, and exactly the bits 0..N-1 set; after any calls
\* of insert, remove and update its set bits are the ids whose latest call
\* was insert or update and the loaded ids that no call touched.
C21_AliveTracking ==
    (ExtIdle /\ AstIdle /\ last = <<>>) =>
        /\ BitmapIds(base_checks.checks) = DOMAIN posts
        /\ nops = 0 =>
              /\ Len(base_checks.checks) = CeilDiv(Cardinality(DOMAIN posts), PACKED_SIZE)
              /\ DOMAIN posts = 0 .. (Cardinality(DOMAIN posts) - 1)

\* Two calls after a load that leave the ids 0..64 alive, the id 64 with a
\* record that a call gave it
C21_Witness ==
    /\ nops = 2
    /\ removed = {}
    /\ DOMAIN posts = 0 .. PACKED_SIZE
    /\ posts[PACKED_SIZE] = <<TagB>>
    /\ posts[0] = <<TagA>>
    /\ Len(base_checks.checks) = 2

\* C22: the text "a and (b and c)", parsed and then simplified, is the
\* AndChain of exactly the three Singles a, b and c.
C22_NestedAndSimplified ==
    (input = split_whitespace(NestedAndText) /\ stage = "parsed" /\ nsimp > 0) =>
        ast[1] = AndChain(<<Single(<<"a">>, FALSE), Single(<<"b">>, FALSE),
                            Single(<<"c">>, FALSE)>>, FALSE)

\* C23: for a text s without '*', the tokens *s* and s parse to Contains(s),
\* s* to StartsWith(s) and *s to EndsWith(s); the token ** and the empty
\* token parse to Contains("").
C23_TextQueryForms ==
    (tx # <<>> /\ "parsed" \in DOMAIN tx /\ tx.parsed # <<>>) =>
        LET token == tx.token
            query == tx.parsed[1]
        IN  /\ (token = <<>> \/ token = <<Star, Star>>) => query = TextContains(<<>>)
            /\ \A n \in 1..MaxToken : \A s \in [1..n -> TextBytes] :
                  /\ (token = s \/ token = <<Star>> \o s \o <<Star>>) => query = TextContains(s)
                  /\ token = s \o <<Star>> => query = TextStartsWith(s)
                  /\ token = <<Star>> \o s => query = TextEndsWith(s)

\* C24: a query text tag:rangeop whose rangeop does not parse as a range is
\* answered with the All range over the tag's index whenever the tag
\* resolves to a tag that has an index, and with None only when it does not.
C24_UnparsedRangeIsAll ==
    (ri # <<>> /\ "ops" \in DOMAIN ri /\ ri.got # <<>>) =>
        LET split == SplitOnce(ri.got[1].text)
            out   == ri.got[1].out
        IN  (split # None /\ RangeQueryFromStr(split[1][2]) = None) =>
                LET tag_id == AiTagId(ri.it, split[1][1])
                IN  IF tag_id # None /\ tag_id[1] \in DOMAIN ri.it.tags
                    THEN /\ out # None
                         /\ out[1].tag_id = tag_id[1]
                         /\ out[1].range_query = RangeAll
                    ELSE out = None

\* the pair (value, id) is an element of self.values
PairStored(self, id, value) ==
    \E i \in 1..Len(ChunkedVecFlat(self.values)) : ChunkedVecFlat(self.values)[i] = <<value, id>>

\* C25: index.remove(id, v) for a pair (v, id) that is not stored, and
\* index.insert(id, v) for a pair that is stored, leave id_values, values and
\* ids as they were.
C25_NoOpsChangeNothing ==
    [][\A id \in RangeIds, value \in RangeValues :
          /\ (RangeRemove(id, value) /\ ~PairStored(ri.it, id, value)) => ri'.it = ri.it
          /\ (RangeInsert(id, value) /\ PairStored(ri.it, id, value)) => ri'.it = ri.it]_vars

\* C26: cv.insert(i, x) with i > len and cv.remove(i) with i >= len panic;
\* no such call returns.
C26_OutOfRangePanics ==
    vcall # <<>> =>
        /\ (vcall[1].op = "insert" /\ vcall[1].index > vcall[1].len) => vcall[1].panic
        /\ (vcall[1].op = "remove" /\ vcall[1].index >= vcall[1].len) => vcall[1].panic

\* C27: a stored set is what check_and_convert left; applying it once more
\* leaves the same representation, and it denotes the same ids.
C27_ConvertSettles ==
    \A k \in DOMAIN index :
        /\ check_and_convert(index[k]).form = index[k].form
        /\ OwnedIds(check_and_convert(index[k])) = OwnedIds(index[k])

\* C28: for every token T of the default index, stored as a sorted id list
\* or as a bitmap of any length, result(T) is exactly the set of alive ids
\* whose record carries T.
C28_ResultIsCarriers ==
    \A T \in DOMAIN index :
        /\ ResultOf(<<T>>).ok
        /\ BitmapIds(ResultOf(<<T>>).result.checks) =
              {id \in DOMAIN posts : \E i \in 1..Len(posts[id]) : posts[id][i] = T}

\* C29: over an index of pairwise distinct strings, get returns no string
\* twice, whatever the kind and the length of the query.
C29_GetReturnsOnce ==
    (tx # <<>> /\ "got" \in DOMAIN tx /\ tx.got # <<>>) =>
        \A i, j \in 1..Len(tx.got[1].out) : tx.got[1].out[i] = tx.got[1].out[j] => i = j

\* The members a get_sorted call merges: (value, id, result_index) for each
\* entry of sorted[result_index] whose id its sub-result contains
MergeMembers(self, sorted) ==
    UNION {{<<e[1], e[2], i - 1>> :
               e \in {x \in SeqRange(ChunkedVecFlat(sorted[i])) :
                         QueryResultContains(self.results[i], x[2])}} :
           i \in 1..Len(sorted)}

\* The members in merge order, ascending or (reverse) descending, as
\* (result_index, id) pairs
RECURSIVE MergeOrder(_, _)
MergeOrder(S, reverse) ==
    IF S = {} THEN <<>>
    ELSE LET first == CHOOSE a \in S :
                         \A b \in S \ {a} : IF reverse THEN TupleLess(b, a) ELSE TupleLess(a, b)
         IN  <<<<first[3], first[2]>>>> \o MergeOrder(S \ {first}, reverse)

\* C30: over two or more sub-results whose members the ordered vectors list,
\* a page get_sorted(sorts, offset, limit, r) with offset a multiple of limit
\* and offset >= remaining / 2 is the window of the merge in direction r
\* after offset entries, of at most limit entries (so consecutive pages
\* neither overlap nor leave a gap).
C30_FarSidePageIsWindow ==
    (/\ mcall # <<>>
     /\ Len(mq.results) >= 2
     /\ ~mcall[1].out.panic
     /\ Cardinality(MergeMembers(mq, mcall[1].sorted)) = mq.remaining
     /\ mcall[1].limit >= 1
     /\ mcall[1].index % mcall[1].limit = 0
     /\ mcall[1].index >= mq.remaining \div 2) =>
        mcall[1].out.ids = Window(MergeOrder(MergeMembers(mq, mcall[1].sorted), mcall[1].reverse),
                                  mcall[1].index, mcall[1].limit)

====
